---- MODULE Spec2Model ----
(***************************************************************************)
(* Model of the Corax Terraform provider: the resource handlers (Create,   *)
(* Read, Update, Delete) of each resource type, the HTTP client's status   *)
(* mapping, and the slice of Terraform core and of the Corax API that the  *)
(* handlers interact with.                                                 *)
(*                                                                         *)
(* One resource instance of one resource type is managed per behaviour:    *)
(* `kind' is fixed by Init.  `state' is the Terraform state of the         *)
(* instance, `remote' the object held by the API.  `op' records the last   *)
(* handler invocation: its inputs (prior state, plan), the HTTP requests   *)
(* it sent, the response and the diagnostics it ended with.                *)
(***************************************************************************)
EXTENDS Integers, Sequences, FiniteSets, TLC

VARIABLES kind, state, remote, nextId, op, pending

vars == <<kind, state, remote, nextId, op, pending>>

\* Number of identifiers the API hands out in one behaviour.
MaxIds == 2

\* ------------------------------------------------------------------------
\* Values

NoResource == [exists |-> FALSE]
Absent     == [exists |-> FALSE]
NoPlan     == [exists |-> FALSE]
NoBody     == [exists |-> FALSE]

IdNull     == <<"null">>
IdUnknown  == <<"unknown">>
ApiId(n)   == <<"uuid", n>>

Kinds ==
    {"project", "collection", "document", "embeddings_model",
     "model_provider", "model_deployment", "chat_capability",
     "chat_capability_blocks", "completion_capability",
     "capability_type_default_model", "provider", "custom_parameters",
     "schema_def"}

\* ------------------------------------------------------------------------
\* HTTP client

StatusNotFound == 404

\* A response as seen by doRequest: either the transport failed, or a
\* status arrived together with a body that does or does not parse.
Responses ==
    {[transportErr |-> TRUE, StatusCode |-> 0, malformed |-> FALSE]}
    \cup {[transportErr |-> FALSE, StatusCode |-> s, malformed |-> FALSE] : s \in {200, StatusNotFound, 500}}
    \cup {[transportErr |-> FALSE, StatusCode |-> 200, malformed |-> TRUE]}

IsErrorStatus(code) ==
    code < 200 \/ code >= 300

\* Faulty variant of doRequest that reports only 404 as an error; C2 must
\* not survive it.
doRequest_NotFoundOnly(resp, wantsBody) ==
    IF resp.transportErr THEN "transport"
    ELSE IF resp.StatusCode = StatusNotFound THEN "ErrNotFound"
    ELSE IF wantsBody /\ resp.malformed THEN "unmarshal" ELSE "nil"

doRequest(resp, wantsBody) ==
    IF resp.transportErr THEN "transport"
    ELSE IF IsErrorStatus(resp.StatusCode)
         THEN IF resp.StatusCode = StatusNotFound THEN "ErrNotFound" ELSE "APIError"
         ELSE IF wantsBody /\ resp.malformed THEN "unmarshal" ELSE "nil"

\* Faulty variant that compares the wrapped error with the sentinel
\* directly, which never matches; C20 must not survive it.
IsErrNotFound_DirectCompare(err) ==
    err = "ErrNotFound" /\ FALSE

\* Faulty variant that takes every error for a not-found; C26 must not
\* survive it.
IsErrNotFound_AnyError(err) ==
    err # "nil"

IsErrNotFound(err) ==
    err = "ErrNotFound"

Success(resp) ==
    ~resp.transportErr /\ ~IsErrorStatus(resp.StatusCode)

\* The answers the API can give to a request addressed to one object:
\* 404 exactly when the object is not there, a 2xx only when it is; any
\* other failure at any time.
ServerAnswers(found) ==
    {r \in Responses :
        /\ (~r.transportErr /\ r.StatusCode = StatusNotFound) => ~found
        /\ Success(r) => found}

\* How the API renders a body is a choice only when it sends one.
Renderings(resp, choices) ==
    IF Success(resp) THEN choices ELSE {CHOOSE c \in choices : TRUE}

Request(method, path, body) ==
    [method |-> method, path |-> path, body |-> body]

\* ------------------------------------------------------------------------
\* Handler outcome bookkeeping

\* `pending' is set between the Delete and the Create of a replacement
\* (what Terraform does for a change to a RequiresReplace attribute): it
\* holds the plan of the Create and the state that the Delete removed.
Replacing(plan, prior) ==
    IF plan = NoPlan THEN NoPlan
    ELSE [exists |-> TRUE, plan |-> plan, replaced |-> prior]

Replaced ==
    IF pending = NoPlan THEN NoResource ELSE pending.replaced

\* The record of a handler invocation: name, prior state and plan it was
\* given, requests sent, response received and parsed body, whether it
\* ended with an error diagnostic, whether it called
\* State.RemoveResource or State.Set, and the state it replaces if it is
\* the Create of a replacement.
NoOp ==
    [name |-> "none", prior |-> NoResource, plan |-> NoPlan, reqs |-> <<>>,
     resp |-> [transportErr |-> FALSE, StatusCode |-> 0, malformed |-> FALSE],
     body |-> NoBody, diagError |-> FALSE, removed |-> FALSE, set |-> FALSE,
     replaced |-> NoResource]

\* A handler that returned without sending anything.
Local(name, prior, plan, diagError, set) ==
    [name |-> name, prior |-> prior, plan |-> plan, reqs |-> <<>>,
     resp |-> NoOp.resp, body |-> NoBody,
     diagError |-> diagError, removed |-> FALSE, set |-> set,
     replaced |-> Replaced]

\* A handler that sent `req' and got `resp' (with parsed `body' on success).
Called(name, prior, plan, req, resp, body, diagError, removed, set) ==
    [name |-> name, prior |-> prior, plan |-> plan, reqs |-> <<req>>,
     resp |-> resp, body |-> body,
     diagError |-> diagError, removed |-> removed, set |-> set,
     replaced |-> Replaced]

\* ------------------------------------------------------------------------
\* corax_model_provider

FullKeys == {"sk-live-aaaa1111", "sk-live-bbbb2222"}

\* The API's redacted rendering of a secret.
Truncate(k) ==
    CASE k = "sk-live-aaaa1111" -> "sk-l...1111"
      [] k = "sk-live-bbbb2222" -> "sk-l...2222"
      [] OTHER -> k

MPPlans ==
    {[exists |-> TRUE, name |-> n, configuration |-> c] : n \in {"openai-a", "openai-b"},
       c \in {[api_key |-> k, api_endpoint |-> "https://api.openai.com"] : k \in FullKeys}}

modelProviderResourceModelToAPICreate(plan) ==
    [name |-> plan.name, configuration |-> plan.configuration]

modelProviderResourceModelToAPIUpdate(plan) ==
    [name |-> plan.name, configuration |-> plan.configuration]

mapAPIModelProviderToResourceModel(apiProvider, model) ==
    [exists |-> TRUE,
     id |-> apiProvider.id,
     name |-> apiProvider.name,
     configuration |-> apiProvider.configuration]

\* What the API stores for a provider and how it renders it: the stored
\* configuration with the api_key either in full or truncated.
MPStored(id, payload) ==
    [exists |-> TRUE, id |-> id, name |-> payload.name, configuration |-> payload.configuration]

MPRendered(obj, truncated) ==
    [id |-> obj.id, name |-> obj.name,
     configuration |-> IF truncated
                       THEN [obj.configuration EXCEPT !.api_key = Truncate(@)]
                       ELSE obj.configuration]

ModelProviderCreate ==
    /\ kind = "model_provider"
    /\ pending = NoPlan
    /\ state = NoResource
    /\ nextId <= MaxIds
    /\ \E plan \in MPPlans, resp \in Responses :
       \E truncated \in Renderings(resp, BOOLEAN) :
        LET payload == modelProviderResourceModelToAPICreate(plan)
            req     == Request("POST", <<"model-providers">>, payload)
            err     == doRequest(resp, TRUE)
            stored  == MPStored(ApiId(nextId), payload)
            body    == MPRendered(stored, truncated)
        IN  /\ remote' = IF Success(resp) THEN stored ELSE remote
            /\ nextId' = IF Success(resp) THEN nextId + 1 ELSE nextId
            /\ IF err # "nil"
               THEN /\ state' = state
                    /\ op' = Called("Create", state, plan, req, resp, NoBody, TRUE, FALSE, FALSE)
               ELSE /\ state' = mapAPIModelProviderToResourceModel(body, plan)
                    /\ op' = Called("Create", state, plan, req, resp, body, FALSE, FALSE, TRUE)
    /\ UNCHANGED <<kind, pending>>

ModelProviderRead ==
    /\ kind = "model_provider"
    /\ pending = NoPlan
    /\ state # NoResource
    /\ \E resp \in ServerAnswers(remote # Absent /\ remote.id = state.id) :
       \E truncated \in Renderings(resp, BOOLEAN) :
        LET req  == Request("GET", <<"model-providers", state.id>>, NoBody)
            err  == doRequest(resp, TRUE)
            body == IF Success(resp) THEN MPRendered(remote, truncated) ELSE NoBody
        IN  IF err # "nil"
            THEN IF IsErrNotFound(err)
                 THEN /\ state' = NoResource
                      /\ op' = Called("Read", state, NoPlan, req, resp, NoBody, FALSE, TRUE, FALSE)
                 ELSE /\ state' = state
                      /\ op' = Called("Read", state, NoPlan, req, resp, NoBody, TRUE, FALSE, FALSE)
            ELSE /\ state' = mapAPIModelProviderToResourceModel(body, state)
                 /\ op' = Called("Read", state, NoPlan, req, resp, body, FALSE, FALSE, TRUE)
    /\ UNCHANGED <<kind, remote, nextId, pending>>

ModelProviderUpdate ==
    /\ kind = "model_provider"
    /\ pending = NoPlan
    /\ state # NoResource
    /\ \E plan \in MPPlans, resp \in ServerAnswers(remote # Absent /\ remote.id = state.id) :
       \E truncated \in Renderings(resp, BOOLEAN) :
        LET providerID == state.id
            payload == modelProviderResourceModelToAPIUpdate(plan)
            req     == Request("PUT", <<"model-providers", providerID>>, payload)
            err     == doRequest(resp, TRUE)
            stored  == MPStored(providerID, payload)
            body    == MPRendered(stored, truncated)
        IN  /\ remote' = IF Success(resp) THEN stored ELSE remote
            /\ IF err # "nil"
               THEN /\ state' = state
                    /\ op' = Called("Update", state, plan, req, resp, NoBody, TRUE, FALSE, FALSE)
               ELSE /\ state' = mapAPIModelProviderToResourceModel(body, plan)
                    /\ op' = Called("Update", state, plan, req, resp, body, FALSE, FALSE, TRUE)
    /\ UNCHANGED <<kind, nextId, pending>>

ModelProviderDelete ==
    /\ kind = "model_provider"
    /\ pending = NoPlan
    /\ state # NoResource
    /\ \E resp \in ServerAnswers(remote # Absent /\ remote.id = state.id) :
        LET req == Request("DELETE", <<"model-providers", state.id>>, NoBody)
            err == doRequest(resp, FALSE)
        IN  /\ remote' = IF Success(resp) THEN Absent ELSE remote
            /\ IF err # "nil"
               THEN IF IsErrNotFound(err)
                    THEN /\ state' = NoResource
                         /\ op' = Called("Delete", state, NoPlan, req, resp, NoBody, FALSE, TRUE, FALSE)
                    ELSE /\ state' = state
                         /\ op' = Called("Delete", state, NoPlan, req, resp, NoBody, TRUE, FALSE, FALSE)
               ELSE /\ state' = NoResource
                    /\ op' = Called("Delete", state, NoPlan, req, resp, NoBody, FALSE, FALSE, FALSE)
    /\ UNCHANGED <<kind, nextId, pending>>

\* ------------------------------------------------------------------------
\* corax_capability_type_default_model

CapabilityTypes == {"chat", "completion"}

CTPlans ==
    {[exists |-> TRUE, capability_type |-> t, default_model_deployment_id |-> d, name |-> "unknown"] :
        t \in CapabilityTypes, d \in {"md-1", "md-2"}}

CapabilityTypeRepresentation(obj, t) ==
    [name |-> (IF t = "chat" THEN "Chat" ELSE "Completion"), type |-> t, default_model_deployment_id |-> obj.default[t]]

\* The plans Terraform hands to Create: any plan, or the pending half of a
\* replacement.
CreatePlans(all) ==
    IF pending = NoPlan THEN all ELSE {pending.plan}

CapabilityTypeDefaultModelCreate ==
    /\ kind = "capability_type_default_model"
    /\ state = NoResource
    /\ \E plan \in CreatePlans(CTPlans), resp \in Responses :
        LET capabilityType == plan.capability_type
            updatePayload  == [default_model_deployment_id |-> plan.default_model_deployment_id]
            req     == Request("PUT", <<"capability-types", capabilityType>>, updatePayload)
            err     == doRequest(resp, TRUE)
            stored  == [remote EXCEPT !.default[capabilityType] = updatePayload.default_model_deployment_id]
            apiResp == CapabilityTypeRepresentation(stored, capabilityType)
        IN  /\ remote' = IF Success(resp) THEN stored ELSE remote
            /\ IF err # "nil"
               THEN /\ state' = state
                    /\ op' = Called("Create", state, plan, req, resp, NoBody, TRUE, FALSE, FALSE)
               ELSE /\ state' = [plan EXCEPT !.name = apiResp.name]
                    /\ op' = Called("Create", state, plan, req, resp, apiResp, FALSE, FALSE, TRUE)
    /\ pending' = NoPlan
    /\ UNCHANGED <<kind, nextId>>

CapabilityTypeDefaultModelRead ==
    /\ kind = "capability_type_default_model"
    /\ pending = NoPlan
    /\ state # NoResource
    /\ \E resp \in Responses :
        LET capabilityType == state.capability_type
            req     == Request("GET", <<"capability-types", capabilityType>>, NoBody)
            err     == doRequest(resp, TRUE)
            apiResp == CapabilityTypeRepresentation(remote, capabilityType)
        IN  IF err # "nil"
            THEN /\ state' = state
                 /\ op' = Called("Read", state, NoPlan, req, resp, NoBody, TRUE, FALSE, FALSE)
            ELSE /\ state' = [state EXCEPT !.name = apiResp.name,
                                           !.default_model_deployment_id = apiResp.default_model_deployment_id]
                 /\ op' = Called("Read", state, NoPlan, req, resp, apiResp, FALSE, FALSE, TRUE)
    /\ UNCHANGED <<kind, remote, nextId, pending>>

\* capability_type carries RequiresReplace: Terraform plans an in-place
\* Update only when it is unchanged.
CapabilityTypeDefaultModelUpdate ==
    /\ kind = "capability_type_default_model"
    /\ pending = NoPlan
    /\ state # NoResource
    /\ \E plan \in CTPlans, resp \in Responses :
        /\ plan.capability_type = state.capability_type
        /\ LET capabilityType == plan.capability_type
               updatePayload  == [default_model_deployment_id |-> plan.default_model_deployment_id]
               req     == Request("PUT", <<"capability-types", capabilityType>>, updatePayload)
               err     == doRequest(resp, TRUE)
               stored  == [remote EXCEPT !.default[capabilityType] = updatePayload.default_model_deployment_id]
               apiResp == CapabilityTypeRepresentation(stored, capabilityType)
           IN  /\ remote' = IF Success(resp) THEN stored ELSE remote
               /\ IF err # "nil"
                  THEN /\ state' = state
                       /\ op' = Called("Update", state, plan, req, resp, NoBody, TRUE, FALSE, FALSE)
                  ELSE /\ state' = [plan EXCEPT !.name = apiResp.name]
                       /\ op' = Called("Update", state, plan, req, resp, apiResp, FALSE, FALSE, TRUE)
    /\ UNCHANGED <<kind, nextId, pending>>

\* Faulty variant of Delete that unsets the default by a PUT, as the code
\* commented out in the handler would; C15 must not survive it.
CapabilityTypeDefaultModelDelete_Unsets ==
    /\ kind = "capability_type_default_model"
    /\ pending = NoPlan
    /\ state # NoResource
    /\ \E replacement \in {NoPlan} \cup {p \in CTPlans : p.capability_type # state.capability_type} :
        LET updatePayload == [default_model_deployment_id |-> "null"]
            req == Request("PUT", <<"capability-types", state.capability_type>>, updatePayload)
        IN  /\ remote' = [remote EXCEPT !.default[state.capability_type] = "null"]
            /\ state' = NoResource
            /\ op' = Called("Delete", state, replacement, req,
                            [transportErr |-> FALSE, StatusCode |-> 200, malformed |-> FALSE],
                            NoBody, FALSE, FALSE, FALSE)
            /\ pending' = Replacing(replacement, state)
    /\ UNCHANGED <<kind, nextId>>

\* Delete contacts nothing; Terraform drops the resource from state.  It
\* runs on destroy, or as the first half of a replacement (a plan whose
\* capability_type differs).
CapabilityTypeDefaultModelDelete ==
    /\ kind = "capability_type_default_model"
    /\ pending = NoPlan
    /\ state # NoResource
    /\ \E replacement \in {NoPlan} \cup {p \in CTPlans : p.capability_type # state.capability_type} :
        /\ state' = NoResource
        /\ op' = Local("Delete", state, replacement, FALSE, FALSE)
        /\ pending' = Replacing(replacement, state)
    /\ UNCHANGED <<kind, remote, nextId>>

\* ------------------------------------------------------------------------
\* Optional values of request and response bodies: a nil pointer, map or
\* slice is left out of the JSON (omitempty); anything else is present.

None    == [present |-> FALSE]
Some(v) == [present |-> TRUE, v |-> v]

\* Merge semantics of the API's PUT: a field left out keeps its value.
Apply(old, sent) ==
    IF sent.present THEN sent.v ELSE old

\* Lexicographic order of the strings used as names below (sort.Strings,
\* and the key order of json.Marshal on a map).
LexRank(str) ==
    CASE str = "customer"   -> 1
      [] str = "order"      -> 2
      [] str = "properties" -> 3
      [] str = "type"       -> 4

RECURSIVE SortStrings(_)
SortStrings(S) ==
    IF S = {} THEN <<>>
    ELSE LET m == CHOOSE x \in S : \A y \in S : LexRank(x) <= LexRank(y)
         IN  <<m>> \o SortStrings(S \ {m})

Elems(seq) ==
    {seq[i] : i \in DOMAIN seq}

Reverse(seq) ==
    [i \in DOMAIN seq |-> seq[Len(seq) + 1 - i]]

\* ------------------------------------------------------------------------
\* corax_completion_capability

\* Terraform values.  A list is null or a sequence.  schema_def is a
\* dynamic value: null, unknown ([form |-> "unknown"]), a string holding
\* JSON text, or an HCL object ([form |-> "object", keys |-> its attribute
\* names]).  A text is the sequence of its tokens: "{", "}", " " for
\* white space, anything else a key of the object written; <<>> is the
\* empty string.  A decoded JSON object is the set of its keys.
ListNull       == [null |-> TRUE]
ListValue(seq) == [null |-> FALSE, elems |-> seq]

DynamicNull         == [form |-> "null"]
DynamicString(text) == [form |-> "string", json |-> text]

\* json.Unmarshal into a map: white space is skipped, the text has to be
\* one object, and its key order is lost.
jsonUnmarshal(text) ==
    LET IsSpace(token) == token = " "
        IsKey(token) == token \notin {"{", "}", " ", "{invalid"}
        tokens == SelectSeq(text, LAMBDA token : ~IsSpace(token))
        n == Len(tokens)
    IN  IF /\ n >= 2
           /\ tokens[1] = "{"
           /\ tokens[n] = "}"
           /\ \A i \in 2..(n - 1) : IsKey(tokens[i])
        THEN [err |-> FALSE, v |-> {tokens[i] : i \in 2..(n - 1)}]
        ELSE [err |-> TRUE]

\* json.Marshal of a map: no white space, keys in sorted order.
jsonMarshal(keys) ==
    <<"{">> \o SortStrings(keys) \o <<"}">>

\* Faulty variant of the plan modifier that re-serializes the keys in the
\* order of the input; C25 must not survive it.
PlanModifyDynamic_KeepsOrder(planValue) ==
    IF planValue.form # "string" THEN planValue
    ELSE IF planValue.json = <<>> THEN planValue
    ELSE IF jsonUnmarshal(planValue.json).err THEN planValue
    ELSE DynamicString(SelectSeq(planValue.json, LAMBDA token : token # " "))

\* normalizeSchemaDefDynamicModifier.PlanModifyDynamic
PlanModifyDynamic(planValue) ==
    IF planValue.form \in {"null", "unknown"} THEN planValue
    ELSE IF planValue.form # "string" THEN planValue
    ELSE IF planValue.json = <<>> THEN planValue
    ELSE IF jsonUnmarshal(planValue.json).err THEN planValue
    ELSE DynamicString(jsonMarshal(jsonUnmarshal(planValue.json).v))

\* The map put in the payload (None for nil) and whether an error
\* diagnostic was added.
schemaDefMapToAPI(schemaDef) ==
    CASE schemaDef.form \in {"null", "unknown"} -> [err |-> FALSE, v |-> None]
      [] schemaDef.form = "string" ->
            IF jsonUnmarshal(schemaDef.json).err
            THEN [err |-> TRUE, v |-> None]
            ELSE [err |-> FALSE, v |-> Some(jsonUnmarshal(schemaDef.json).v)]
      [] schemaDef.form = "object" -> [err |-> FALSE, v |-> Some(schemaDef.keys)]

schemaDefAPIToMap(apiSchemaDef) ==
    IF ~apiSchemaDef.present THEN DynamicNull
    ELSE DynamicString(jsonMarshal(apiSchemaDef.v))

\* Plans as Terraform presents them to the handlers: the configuration
\* after the schema_def plan modifier.
CCPlans ==
    {[exists |-> TRUE, id |-> IdUnknown, type |-> "unknown", name |-> "summarize",
      output_type |-> o, schema_def |-> PlanModifyDynamic(sd), variables |-> v] :
        o \in {"text", "schema"},
        sd \in {DynamicNull, [form |-> "object", keys |-> {"type", "properties"}]}
               \cup {DynamicString(t) : t \in {<<"{", "type", "properties", "}">>,
                                                <<"{", " ", "properties", " ", "type", "}">>,
                                                <<"{invalid">>}},
        v \in {ListNull} \cup {ListValue(l) : l \in {<<"order", "customer">>}}}

\* The shapes in which the API returns input.variables: the list as
\* stored, the same names in another order, or a map keyed by name.
CCVariableForms(obj) ==
    IF obj.variables.present THEN {"list", "reordered", "map"} ELSE {"list"}

\* Whether the API keeps a stored output.result when a PUT that carries
\* no schema_def leaves the capability with text output.
CCKeepsResult(obj, payload) ==
    IF /\ obj.result.present
       /\ ~payload.schema_def.present
       /\ Apply(obj.output_type, payload.output_type) = "text"
    THEN BOOLEAN ELSE {TRUE}

CCRendered(obj, form) ==
    [id |-> obj.id, name |-> obj.name, type |-> obj.type,
     output |-> [type |-> obj.output_type, result |-> obj.result],
     variables |->
        IF ~obj.variables.present THEN [form |-> "absent"]
        ELSE IF form = "map" THEN [form |-> "map", keys |-> Elems(obj.variables.v)]
        ELSE IF form = "reordered" THEN [form |-> "list", elems |-> Reverse(obj.variables.v)]
        ELSE [form |-> "list", elems |-> obj.variables.v]]

mapAPICompletionCapabilityToModel(apiCap, model) ==
    [exists |-> TRUE,
     id |-> apiCap.id,
     name |-> apiCap.name,
     type |-> apiCap.type,
     output_type |-> apiCap.output.type,
     schema_def |-> IF apiCap.output.result.present
                    THEN schemaDefAPIToMap(apiCap.output.result)
                    ELSE DynamicNull,
     variables |-> IF apiCap.variables.form = "list" THEN ListValue(apiCap.variables.elems)
                   ELSE IF apiCap.variables.form = "map"
                        THEN ListValue(SortStrings(apiCap.variables.keys))
                        ELSE ListNull]

\* The slice of a list sent in a payload (an empty or nil slice is omitted).
SliceToAPI(list) ==
    IF list.null \/ list.elems = <<>> THEN None ELSE Some(list.elems)

CompletionCapabilityCreatePayload(plan) ==
    [name |-> plan.name, type |-> "completion", output_type |-> plan.output_type,
     variables |-> SliceToAPI(plan.variables),
     schema_def |-> IF plan.output_type = "schema" THEN schemaDefMapToAPI(plan.schema_def).v ELSE None]

\* Faulty variant of the Create-time check that rejects every plan with
\* schema output; C5 must not survive it.
CCCreateRejected_AnySchema(plan) ==
    plan.output_type = "schema"

\* Create returns with an error before sending anything when output_type
\* is "schema" and schema_def is null or unknown, or is a string that
\* schemaDefMapToAPI cannot parse.
CCCreateRejected(plan) ==
    /\ plan.output_type = "schema"
    /\ \/ plan.schema_def.form \in {"null", "unknown"}
       \/ schemaDefMapToAPI(plan.schema_def).err

CCStored(id, payload) ==
    [exists |-> TRUE, id |-> id, type |-> payload.type, name |-> payload.name,
     output_type |-> payload.output_type, result |-> payload.schema_def,
     variables |-> payload.variables]

CompletionCapabilityCreate ==
    /\ kind = "completion_capability"
    /\ pending = NoPlan
    /\ state = NoResource
    /\ nextId <= MaxIds
    /\ \E plan \in CCPlans :
        IF CCCreateRejected(plan)
        THEN /\ op' = Local("Create", state, plan, TRUE, FALSE)
             /\ UNCHANGED <<state, remote, nextId>>
        ELSE \E resp \in Responses :
             \E form \in Renderings(resp, CCVariableForms(CCStored(ApiId(nextId), CompletionCapabilityCreatePayload(plan)))) :
              LET apiPayload == CompletionCapabilityCreatePayload(plan)
                  req     == Request("POST", <<"capabilities">>, apiPayload)
                  err     == doRequest(resp, TRUE)
                  stored  == CCStored(ApiId(nextId), apiPayload)
                  body    == CCRendered(stored, form)
              IN  /\ remote' = IF Success(resp) THEN stored ELSE remote
                  /\ nextId' = IF Success(resp) THEN nextId + 1 ELSE nextId
                  /\ IF err # "nil"
                     THEN /\ state' = state
                          /\ op' = Called("Create", state, plan, req, resp, NoBody, TRUE, FALSE, FALSE)
                     ELSE /\ state' = mapAPICompletionCapabilityToModel(body, plan)
                          /\ op' = Called("Create", state, plan, req, resp, body, FALSE, FALSE, TRUE)
    /\ UNCHANGED <<kind, pending>>

\* terraform import: ImportStatePassthroughID puts the given id in state
\* and leaves every other attribute null; Terraform calls Read next.  The
\* id is that of a capability someone else created, which the API holds
\* as a chat or as a completion capability.
CompletionCapabilityImportState ==
    /\ kind = "completion_capability"
    /\ pending = NoPlan
    /\ state = NoResource
    /\ remote = Absent
    /\ nextId <= MaxIds
    /\ \E type \in {"chat", "completion"} :
        LET id == ApiId(nextId)
            foreign == [exists |-> TRUE, id |-> id, type |-> type, name |-> "summarize",
                        output_type |-> "text", result |-> None, variables |-> None]
        IN  /\ remote' = foreign
            /\ state' = [exists |-> TRUE, id |-> id, type |-> "null", name |-> "null",
                         output_type |-> "null", schema_def |-> DynamicNull,
                         variables |-> ListNull]
            /\ op' = Local("ImportState", state, NoPlan, FALSE, TRUE)
    /\ nextId' = nextId + 1
    /\ UNCHANGED <<kind, pending>>

CompletionCapabilityRead ==
    /\ kind = "completion_capability"
    /\ pending = NoPlan
    /\ state # NoResource
    /\ \E resp \in ServerAnswers(remote # Absent /\ remote.id = state.id) :
       \E form \in Renderings(resp, IF Success(resp) THEN CCVariableForms(remote) ELSE {"list"}) :
        LET req  == Request("GET", <<"capabilities", state.id>>, NoBody)
            err  == doRequest(resp, TRUE)
            body == IF Success(resp) THEN CCRendered(remote, form) ELSE NoBody
        IN  IF err # "nil"
            THEN IF IsErrNotFound(err)
                 THEN /\ state' = NoResource
                      /\ op' = Called("Read", state, NoPlan, req, resp, NoBody, FALSE, TRUE, FALSE)
                 ELSE /\ state' = state
                      /\ op' = Called("Read", state, NoPlan, req, resp, NoBody, TRUE, FALSE, FALSE)
            ELSE IF body.type # "completion"
                 THEN /\ state' = NoResource
                      /\ op' = Called("Read", state, NoPlan, req, resp, body, TRUE, TRUE, FALSE)
                 ELSE /\ state' = mapAPICompletionCapabilityToModel(body, state)
                      /\ op' = Called("Read", state, NoPlan, req, resp, body, FALSE, FALSE, TRUE)
    /\ UNCHANGED <<kind, remote, nextId, pending>>

setStringPtr(current, new) ==
    IF new # current /\ new # "null" THEN Some(new) ELSE None

CompletionCapabilityUpdatePayload(plan, prior) ==
    [name |-> setStringPtr(prior.name, plan.name),
     output_type |-> setStringPtr(prior.output_type, plan.output_type),
     variables |-> IF plan.variables # prior.variables
                   THEN SliceToAPI(plan.variables) ELSE None,
     schema_def |-> IF plan.schema_def # prior.schema_def
                    THEN schemaDefMapToAPI(plan.schema_def).v ELSE None]

CCUpdateNeeded(plan, prior) ==
    \/ plan.name # prior.name
    \/ plan.output_type # prior.output_type
    \/ plan.variables # prior.variables
    \/ plan.schema_def # prior.schema_def

\* The API's PUT: fields sent replace the stored ones, fields left out
\* stay.  Whether a capability switched to text output keeps its stored
\* output.result is the API's choice (keepsResult).
CCUpdated(obj, payload, keepsResult) ==
    LET outputType == Apply(obj.output_type, payload.output_type)
    IN  [obj EXCEPT !.name = Apply(@, payload.name),
                    !.output_type = outputType,
                    !.variables = IF payload.variables.present THEN payload.variables ELSE @,
                    !.result = IF payload.schema_def.present THEN payload.schema_def
                               ELSE IF outputType = "text" /\ ~keepsResult THEN None
                               ELSE @]

CompletionCapabilityUpdate ==
    /\ kind = "completion_capability"
    /\ pending = NoPlan
    /\ state # NoResource
    /\ \E cfg \in CCPlans :
        LET plan == [cfg EXCEPT !.id = state.id, !.type = state.type]
        IN  IF /\ plan.schema_def # state.schema_def
               /\ plan.schema_def.form # "null"
               /\ schemaDefMapToAPI(plan.schema_def).err
            THEN /\ state' = state
                 /\ op' = Local("Update", state, plan, TRUE, FALSE)
                 /\ UNCHANGED remote
            ELSE IF ~CCUpdateNeeded(plan, state)
            THEN /\ state' = plan
                 /\ op' = Local("Update", state, plan, FALSE, TRUE)
                 /\ UNCHANGED remote
            ELSE \E resp \in ServerAnswers(remote # Absent /\ remote.id = state.id) :
                 \E keepsResult \in Renderings(resp, IF Success(resp) THEN CCKeepsResult(remote, CompletionCapabilityUpdatePayload(plan, state)) ELSE {TRUE}) :
                 \E form \in Renderings(resp, IF Success(resp) THEN CCVariableForms(CCUpdated(remote, CompletionCapabilityUpdatePayload(plan, state), keepsResult)) ELSE {"list"}) :
                  LET capabilityID  == state.id
                      updatePayload == CompletionCapabilityUpdatePayload(plan, state)
                      req     == Request("PUT", <<"capabilities", capabilityID>>, updatePayload)
                      err     == doRequest(resp, TRUE)
                      stored  == CCUpdated(remote, updatePayload, keepsResult)
                      body    == CCRendered(stored, form)
                  IN  /\ remote' = IF Success(resp) THEN stored ELSE remote
                      /\ IF err # "nil"
                         THEN /\ state' = state
                              /\ op' = Called("Update", state, plan, req, resp, NoBody, TRUE, FALSE, FALSE)
                         ELSE /\ state' = mapAPICompletionCapabilityToModel(body, plan)
                              /\ op' = Called("Update", state, plan, req, resp, body, FALSE, FALSE, TRUE)
    /\ UNCHANGED <<kind, nextId, pending>>

CompletionCapabilityDelete ==
    /\ kind = "completion_capability"
    /\ pending = NoPlan
    /\ state # NoResource
    /\ \E resp \in ServerAnswers(remote # Absent /\ remote.id = state.id) :
        LET req == Request("DELETE", <<"capabilities", state.id>>, NoBody)
            err == doRequest(resp, FALSE)
        IN  /\ remote' = IF Success(resp) THEN Absent ELSE remote
            /\ IF err # "nil"
               THEN IF IsErrNotFound(err)
                    THEN /\ state' = NoResource
                         /\ op' = Called("Delete", state, NoPlan, req, resp, NoBody, FALSE, TRUE, FALSE)
                    ELSE /\ state' = state
                         /\ op' = Called("Delete", state, NoPlan, req, resp, NoBody, TRUE, FALSE, FALSE)
               ELSE /\ state' = NoResource
                    /\ op' = Called("Delete", state, NoPlan, req, resp, NoBody, FALSE, FALSE, FALSE)
    /\ UNCHANGED <<kind, nextId, pending>>

\* ------------------------------------------------------------------------
\* Terraform string values: a known string, or one of the two markers.

IsSet(v) ==
    v # "null" /\ v # "unknown"

\* The `if !x.IsNull() && !x.IsUnknown()' idiom that fills a pointer field.
PtrIfSet(v) ==
    IF IsSet(v) THEN Some(v) ELSE None

\* ------------------------------------------------------------------------
\* corax_embeddings_model

\* Configurations: the base one and those that differ from it in one
\* attribute.
EMConfigs ==
    LET EMBase ==
            [name |-> "embed-a", model_provider |-> "openai",
             model_name_on_provider |-> "text-embedding-3-small",
             dimensions |-> "1536", max_tokens |-> "omitted", api_key |-> "null"]
    IN  {EMBase,
         [EMBase EXCEPT !.name = "embed-b"],
         [EMBase EXCEPT !.model_provider = "azure"],
         [EMBase EXCEPT !.model_name_on_provider = "text-embedding-3-large"],
         [EMBase EXCEPT !.dimensions = "3072"],
         [EMBase EXCEPT !.max_tokens = "512"],
         [EMBase EXCEPT !.api_key = "sk-embed-1234"]}

\* The plan Terraform derives from a configuration: id and an omitted
\* max_tokens are unknown on create and taken from prior state otherwise
\* (UseStateForUnknown).
EMPlan(cfg, prior) ==
    [exists |-> TRUE,
     id |-> IF prior = NoResource THEN IdUnknown ELSE prior.id,
     name |-> cfg.name,
     model_provider |-> cfg.model_provider,
     model_name_on_provider |-> cfg.model_name_on_provider,
     dimensions |-> cfg.dimensions,
     max_tokens |-> IF cfg.max_tokens # "omitted" THEN cfg.max_tokens
                    ELSE IF prior = NoResource THEN "unknown" ELSE prior.max_tokens,
     api_key |-> cfg.api_key]

\* Faulty variant of the schema without RequiresReplace on dimensions; C9
\* must not survive it.
EMRequiresReplace_NotDimensions(plan, prior) ==
    \/ plan.model_provider # prior.model_provider
    \/ plan.model_name_on_provider # prior.model_name_on_provider
    \/ plan.max_tokens # prior.max_tokens

\* The RequiresReplace plan modifiers of the schema.
EMRequiresReplace(plan, prior) ==
    \/ plan.model_provider # prior.model_provider
    \/ plan.model_name_on_provider # prior.model_name_on_provider
    \/ plan.dimensions # prior.dimensions
    \/ plan.max_tokens # prior.max_tokens

\* The plans of the Create that follows the Delete of a replacement:
\* Terraform plans it against no prior state.
EMReplacements(prior) ==
    {EMPlan(cfg, NoResource) : cfg \in {c \in EMConfigs : EMRequiresReplace(EMPlan(c, prior), prior)}}

EmbeddingsModelCreatePayload(data) ==
    [name |-> data.name,
     model_provider |-> data.model_provider,
     model_name_on_provider |-> data.model_name_on_provider,
     dimensions |-> data.dimensions,
     max_tokens |-> PtrIfSet(data.max_tokens),
     api_key |-> PtrIfSet(data.api_key)]

EmbeddingsModelUpdatePayload(plan, prior) ==
    [name |-> IF plan.name # prior.name THEN Some(plan.name) ELSE None,
     api_key |-> IF plan.api_key # prior.api_key THEN PtrIfSet(plan.api_key) ELSE None]

EMUpdateNeeded(plan, prior) ==
    plan.name # prior.name \/ plan.api_key # prior.api_key

EMStored(id, payload) ==
    [exists |-> TRUE, id |-> id, name |-> payload.name,
     model_provider |-> payload.model_provider,
     model_name_on_provider |-> payload.model_name_on_provider,
     dimensions |-> payload.dimensions,
     max_tokens |-> Apply("8191", payload.max_tokens),
     api_key |-> payload.api_key]

EMUpdated(obj, payload) ==
    [obj EXCEPT !.name = Apply(@, payload.name),
                !.api_key = IF payload.api_key.present THEN payload.api_key ELSE @]

\* How the API returns a stored api_key: not at all, as stored, or redacted.
EMKeyRenderings(obj) ==
    IF obj.api_key.present THEN {"omitted", "echoed", "redacted"} ELSE {"omitted"}

EMRendered(obj, keyRendering) ==
    [id |-> obj.id, name |-> obj.name,
     model_provider |-> obj.model_provider,
     model_name_on_provider |-> obj.model_name_on_provider,
     dimensions |-> obj.dimensions,
     max_tokens |-> Some(obj.max_tokens),
     api_key |-> IF keyRendering = "omitted" THEN None
                 ELSE IF keyRendering = "redacted" THEN Some("sk-e...1234")
                 ELSE obj.api_key]

mapEmbeddingsModelToModel(modelAPI, modelTF) ==
    [exists |-> TRUE,
     id |-> modelAPI.id,
     name |-> modelAPI.name,
     model_provider |-> modelAPI.model_provider,
     model_name_on_provider |-> modelAPI.model_name_on_provider,
     dimensions |-> modelAPI.dimensions,
     max_tokens |-> IF modelAPI.max_tokens.present THEN modelAPI.max_tokens.v ELSE "null",
     api_key |-> IF modelAPI.api_key.present THEN modelAPI.api_key.v
                 ELSE IF modelTF.api_key = "unknown" THEN "null"
                 ELSE modelTF.api_key]

\* The handlers' own treatment of api_key after mapping.
EMRestoreKey(mapped, modelAPI, current) ==
    IF ~modelAPI.api_key.present /\ IsSet(current)
    THEN [mapped EXCEPT !.api_key = current]
    ELSE mapped

EMReadKey(mapped, modelAPI, currentApiKeyInState) ==
    IF ~modelAPI.api_key.present /\ IsSet(currentApiKeyInState)
    THEN [mapped EXCEPT !.api_key = currentApiKeyInState]
    ELSE IF modelAPI.api_key.present
         THEN [mapped EXCEPT !.api_key = modelAPI.api_key.v]
         ELSE [mapped EXCEPT !.api_key = "null"]

EmbeddingsModelCreate ==
    /\ kind = "embeddings_model"
    /\ state = NoResource
    /\ nextId <= MaxIds
    /\ \E data \in CreatePlans({EMPlan(cfg, NoResource) : cfg \in EMConfigs}), resp \in Responses :
        LET createPayload == EmbeddingsModelCreatePayload(data)
            stored == EMStored(ApiId(nextId), createPayload)
        IN  \E keyRendering \in Renderings(resp, EMKeyRenderings(stored)) :
             LET req  == Request("POST", <<"embeddings-models">>, createPayload)
                 err  == doRequest(resp, TRUE)
                 body == EMRendered(stored, keyRendering)
             IN  /\ remote' = IF Success(resp) THEN stored ELSE remote
                 /\ nextId' = IF Success(resp) THEN nextId + 1 ELSE nextId
                 /\ IF err # "nil"
                    THEN /\ state' = state
                         /\ op' = Called("Create", state, data, req, resp, NoBody, TRUE, FALSE, FALSE)
                    ELSE /\ state' = EMRestoreKey(mapEmbeddingsModelToModel(body, data), body, data.api_key)
                         /\ op' = Called("Create", state, data, req, resp, body, FALSE, FALSE, TRUE)
    /\ pending' = NoPlan
    /\ UNCHANGED kind

EmbeddingsModelRead ==
    /\ kind = "embeddings_model"
    /\ pending = NoPlan
    /\ state # NoResource
    /\ \E resp \in ServerAnswers(remote # Absent /\ remote.id = state.id) :
       \E keyRendering \in Renderings(resp, IF Success(resp) THEN EMKeyRenderings(remote) ELSE {"omitted"}) :
        LET req  == Request("GET", <<"embeddings-models", state.id>>, NoBody)
            err  == doRequest(resp, TRUE)
            body == IF Success(resp) THEN EMRendered(remote, keyRendering) ELSE NoBody
        IN  IF err # "nil"
            THEN IF IsErrNotFound(err)
                 THEN /\ state' = NoResource
                      /\ op' = Called("Read", state, NoPlan, req, resp, NoBody, FALSE, TRUE, FALSE)
                 ELSE /\ state' = state
                      /\ op' = Called("Read", state, NoPlan, req, resp, NoBody, TRUE, FALSE, FALSE)
            ELSE /\ state' = EMReadKey(mapEmbeddingsModelToModel(body, state), body, state.api_key)
                 /\ op' = Called("Read", state, NoPlan, req, resp, body, FALSE, FALSE, TRUE)
    /\ UNCHANGED <<kind, remote, nextId, pending>>

\* Terraform plans an in-place Update only when no RequiresReplace
\* attribute changes.
EmbeddingsModelUpdate ==
    /\ kind = "embeddings_model"
    /\ pending = NoPlan
    /\ state # NoResource
    /\ \E cfg \in EMConfigs :
        LET plan == EMPlan(cfg, state)
        IN  /\ ~EMRequiresReplace(plan, state)
            /\ IF ~EMUpdateNeeded(plan, state)
               THEN /\ state' = plan
                    /\ op' = Local("Update", state, plan, FALSE, TRUE)
                    /\ UNCHANGED remote
               ELSE \E resp \in ServerAnswers(remote # Absent /\ remote.id = state.id) :
                     LET modelID == state.id
                         updatePayload == EmbeddingsModelUpdatePayload(plan, state)
                         stored == IF Success(resp) THEN EMUpdated(remote, updatePayload) ELSE remote
                     IN  \E keyRendering \in Renderings(resp, IF Success(resp) THEN EMKeyRenderings(stored) ELSE {"omitted"}) :
                          LET req  == Request("PUT", <<"embeddings-models", modelID>>, updatePayload)
                              err  == doRequest(resp, TRUE)
                              body == IF Success(resp) THEN EMRendered(stored, keyRendering) ELSE NoBody
                          IN  /\ remote' = stored
                              /\ IF err # "nil"
                                 THEN /\ state' = state
                                      /\ op' = Called("Update", state, plan, req, resp, NoBody, TRUE, FALSE, FALSE)
                                 ELSE /\ state' = EMRestoreKey(mapEmbeddingsModelToModel(body, plan), body, plan.api_key)
                                      /\ op' = Called("Update", state, plan, req, resp, body, FALSE, FALSE, TRUE)
    /\ UNCHANGED <<kind, nextId, pending>>

\* Delete runs on destroy, or as the first half of a replacement; the
\* replacement's Create follows only if Delete left no error.
EmbeddingsModelDelete ==
    /\ kind = "embeddings_model"
    /\ pending = NoPlan
    /\ state # NoResource
    /\ \E replacement \in {NoPlan} \cup EMReplacements(state) :
       \E resp \in ServerAnswers(remote # Absent /\ remote.id = state.id) :
        LET req == Request("DELETE", <<"embeddings-models", state.id>>, NoBody)
            err == doRequest(resp, FALSE)
        IN  /\ remote' = IF Success(resp) THEN Absent ELSE remote
            /\ IF err # "nil"
               THEN IF IsErrNotFound(err)
                    THEN /\ state' = NoResource
                         /\ op' = Called("Delete", state, replacement, req, resp, NoBody, FALSE, TRUE, FALSE)
                         /\ pending' = Replacing(replacement, state)
                    ELSE /\ state' = state
                         /\ op' = Called("Delete", state, replacement, req, resp, NoBody, TRUE, FALSE, FALSE)
                         /\ pending' = NoPlan
               ELSE /\ state' = NoResource
                    /\ op' = Called("Delete", state, replacement, req, resp, NoBody, FALSE, FALSE, FALSE)
                    /\ pending' = Replacing(replacement, state)
    /\ UNCHANGED <<kind, nextId>>

\* ------------------------------------------------------------------------
\* corax_document

\* Configurations as written, before validation: the base one and those
\* that differ from it in one attribute; then content given as JSON text
\* (an object, the empty object, text that does not parse), both
\* contents, and neither.
DocConfigs ==
    LET DocBase ==
            [id |-> IdNull, collection_id |-> "col-1", text_content |-> "hello", json_content |-> "null"]
    IN  {DocBase,
         [DocBase EXCEPT !.id = <<"user", 1>>],
         [DocBase EXCEPT !.collection_id = "col-2"],
         [DocBase EXCEPT !.text_content = "bye"],
         [DocBase EXCEPT !.text_content = "null", !.json_content = "{ \"a\": 1 }"],
         [DocBase EXCEPT !.text_content = "null", !.json_content = "{}"],
         [DocBase EXCEPT !.text_content = "null", !.json_content = "{bad"],
         [DocBase EXCEPT !.json_content = "{ \"a\": 1 }"],
         [DocBase EXCEPT !.text_content = "null"]}

\* The configurations Terraform lets through to the handlers:
\* ExactlyOneOf on text_content, naming json_content.
DocAcceptedConfigs ==
    {cfg \in DocConfigs : IsSet(cfg.text_content) # IsSet(cfg.json_content)}

\* json.Unmarshal of a document's json_content into a map, with the map
\* held as its compact rendering; and json.Marshal back to text.  A map
\* without entries ("{}") is left out of a request body (omitempty).
DocJsonValid(text) ==
    text # "{bad"

DocJsonUnmarshal(text) ==
    IF text = "{ \"a\": 1 }" THEN "{\"a\":1}" ELSE text

DocJsonMarshal(map) ==
    map

\* The plan Terraform derives from a configuration: an id left out is
\* unknown on create and taken from prior state otherwise
\* (UseStateForUnknown).
DocPlan(cfg, prior) ==
    [exists |-> TRUE,
     id |-> IF cfg.id # IdNull THEN cfg.id
            ELSE IF prior = NoResource THEN IdUnknown ELSE prior.id,
     collection_id |-> cfg.collection_id,
     text_content |-> cfg.text_content,
     json_content |-> cfg.json_content]

\* Faulty variant of the schema without RequiresReplace on
\* collection_id; C10 must not survive it.
DocRequiresReplace_IdOnly(cfg, prior) ==
    cfg.id # IdNull /\ cfg.id # prior.id

\* RequiresReplace on collection_id, RequiresReplaceIfConfigured on id.
DocRequiresReplace(cfg, prior) ==
    \/ DocPlan(cfg, prior).collection_id # prior.collection_id
    \/ cfg.id # IdNull /\ DocPlan(cfg, prior).id # prior.id

DocReplacements(prior) ==
    {DocPlan(cfg, NoResource) : cfg \in {c \in DocAcceptedConfigs : DocRequiresReplace(c, prior)}}

\* Faulty variant of mapDocumentToModel that leaves the id of the model as
\* it was planned; C11 must not survive it.
mapDocumentToModel_KeepsPlannedId(doc, model) ==
    [exists |-> TRUE,
     id |-> model.id,
     collection_id |-> doc.collection_id,
     text_content |-> IF doc.text_content.present THEN doc.text_content.v ELSE "null",
     json_content |-> IF doc.json_content.present THEN DocJsonMarshal(doc.json_content.v) ELSE "null"]

mapDocumentToModel(doc, model) ==
    [exists |-> TRUE,
     id |-> doc.id,
     collection_id |-> doc.collection_id,
     text_content |-> IF doc.text_content.present THEN doc.text_content.v ELSE "null",
     json_content |-> IF doc.json_content.present THEN DocJsonMarshal(doc.json_content.v) ELSE "null"]

\* PUT /v1/collections/{collection_id}/documents/{document_id}: creates
\* the document or updates it.  Whether content left out of the body is
\* kept or dropped by the API is its choice (keepsOmitted).
DocUpserted(obj, collectionID, documentID, payload, keepsOmitted) ==
    LET old == IF obj # Absent /\ obj.id = documentID /\ obj.collection_id = collectionID /\ keepsOmitted
               THEN obj
               ELSE [text_content |-> None, json_content |-> None]
    IN  [exists |-> TRUE, id |-> documentID, collection_id |-> collectionID,
         text_content |-> IF payload.text_content.present THEN payload.text_content ELSE old.text_content,
         json_content |-> IF payload.json_content.present THEN payload.json_content ELSE old.json_content]

\* GetDocument and UpsertDocument fill in collection_id from the path.
DocRendered(obj, collectionID) ==
    [id |-> obj.id, collection_id |-> collectionID,
     text_content |-> obj.text_content, json_content |-> obj.json_content]

DocFound(collectionID, documentID) ==
    remote # Absent /\ remote.id = documentID /\ remote.collection_id = collectionID

DocumentCreate ==
    /\ kind = "document"
    /\ state = NoResource
    /\ nextId <= MaxIds
    /\ \E data \in CreatePlans({DocPlan(cfg, NoResource) : cfg \in DocAcceptedConfigs}) :
        LET collectionID == data.collection_id
            generated    == data.id = IdUnknown \/ data.id = IdNull
            documentID   == IF generated THEN ApiId(nextId) ELSE data.id
        IN  IF IsSet(data.json_content) /\ ~DocJsonValid(data.json_content)
            THEN /\ op' = Local("Create", state, data, TRUE, FALSE)
                 /\ nextId' = IF generated THEN nextId + 1 ELSE nextId
                 /\ UNCHANGED <<state, remote>>
            ELSE \E resp \in Responses :
                  LET docUpdatePayload ==
                          [text_content |-> PtrIfSet(data.text_content),
                           json_content |-> IF IsSet(data.json_content)
                                               /\ DocJsonUnmarshal(data.json_content) # "{}"
                                            THEN Some(DocJsonUnmarshal(data.json_content)) ELSE None]
                      req    == Request("PUT", <<"collections", collectionID, "documents", documentID>>, docUpdatePayload)
                      err    == doRequest(resp, TRUE)
                      stored == DocUpserted(remote, collectionID, documentID, docUpdatePayload, FALSE)
                      body   == DocRendered(stored, collectionID)
                  IN  /\ remote' = IF Success(resp) THEN stored ELSE remote
                      /\ nextId' = IF generated THEN nextId + 1 ELSE nextId
                      /\ IF err # "nil"
                         THEN /\ state' = state
                              /\ op' = Called("Create", state, data, req, resp, NoBody, TRUE, FALSE, FALSE)
                         ELSE /\ state' = mapDocumentToModel(body, data)
                              /\ op' = Called("Create", state, data, req, resp, body, FALSE, FALSE, TRUE)
    /\ pending' = NoPlan
    /\ UNCHANGED kind

DocumentRead ==
    /\ kind = "document"
    /\ pending = NoPlan
    /\ state # NoResource
    /\ \E resp \in ServerAnswers(DocFound(state.collection_id, state.id)) :
        LET collectionID == state.collection_id
            documentID   == state.id
            req  == Request("GET", <<"collections", collectionID, "documents", documentID>>, NoBody)
            err  == doRequest(resp, TRUE)
            body == IF Success(resp) THEN DocRendered(remote, collectionID) ELSE NoBody
        IN  IF err # "nil"
            THEN IF IsErrNotFound(err)
                 THEN /\ state' = NoResource
                      /\ op' = Called("Read", state, NoPlan, req, resp, NoBody, FALSE, TRUE, FALSE)
                 ELSE /\ state' = state
                      /\ op' = Called("Read", state, NoPlan, req, resp, NoBody, TRUE, FALSE, FALSE)
            ELSE /\ state' = mapDocumentToModel(body, state)
                 /\ op' = Called("Read", state, NoPlan, req, resp, body, FALSE, FALSE, TRUE)
    /\ UNCHANGED <<kind, remote, nextId, pending>>

DocUpdateNeeded(plan, prior) ==
    plan.text_content # prior.text_content \/ plan.json_content # prior.json_content

\* Terraform plans an in-place Update only when neither collection_id nor
\* a configured id changes.
DocumentUpdate ==
    /\ kind = "document"
    /\ pending = NoPlan
    /\ state # NoResource
    /\ \E cfg \in DocAcceptedConfigs :
        LET plan == DocPlan(cfg, state)
            collectionID == state.collection_id
            documentID   == state.id
        IN  /\ ~DocRequiresReplace(cfg, state)
            /\ IF plan.json_content # state.json_content /\ IsSet(plan.json_content) /\ ~DocJsonValid(plan.json_content)
               THEN /\ op' = Local("Update", state, plan, TRUE, FALSE)
                    /\ UNCHANGED <<state, remote>>
               ELSE IF ~DocUpdateNeeded(plan, state)
               THEN /\ state' = plan
                    /\ op' = Local("Update", state, plan, FALSE, TRUE)
                    /\ UNCHANGED remote
               ELSE \E resp \in Responses :
                    \E keepsOmitted \in Renderings(resp, BOOLEAN) :
                     LET docUpdatePayload ==
                             [text_content |-> IF plan.text_content # state.text_content
                                               THEN PtrIfSet(plan.text_content) ELSE None,
                              json_content |-> IF plan.json_content # state.json_content /\ IsSet(plan.json_content)
                                                  /\ DocJsonUnmarshal(plan.json_content) # "{}"
                                               THEN Some(DocJsonUnmarshal(plan.json_content)) ELSE None]
                         req    == Request("PUT", <<"collections", collectionID, "documents", documentID>>, docUpdatePayload)
                         err    == doRequest(resp, TRUE)
                         stored == DocUpserted(remote, collectionID, documentID, docUpdatePayload, keepsOmitted)
                         body   == DocRendered(stored, collectionID)
                     IN  /\ remote' = IF Success(resp) THEN stored ELSE remote
                         /\ IF err # "nil"
                            THEN /\ state' = state
                                 /\ op' = Called("Update", state, plan, req, resp, NoBody, TRUE, FALSE, FALSE)
                            ELSE /\ state' = mapDocumentToModel(body, plan)
                                 /\ op' = Called("Update", state, plan, req, resp, body, FALSE, FALSE, TRUE)
    /\ UNCHANGED <<kind, nextId, pending>>

DocumentDelete ==
    /\ kind = "document"
    /\ pending = NoPlan
    /\ state # NoResource
    /\ \E replacement \in {NoPlan} \cup DocReplacements(state) :
       \E resp \in ServerAnswers(DocFound(state.collection_id, state.id)) :
        LET collectionID == state.collection_id
            documentID   == state.id
            req == Request("DELETE", <<"collections", collectionID, "documents", documentID>>, NoBody)
            err == doRequest(resp, FALSE)
        IN  /\ remote' = IF Success(resp) THEN Absent ELSE remote
            /\ IF err # "nil"
               THEN IF IsErrNotFound(err)
                    THEN /\ state' = NoResource
                         /\ op' = Called("Delete", state, replacement, req, resp, NoBody, FALSE, TRUE, FALSE)
                         /\ pending' = Replacing(replacement, state)
                    ELSE /\ state' = state
                         /\ op' = Called("Delete", state, replacement, req, resp, NoBody, TRUE, FALSE, FALSE)
                         /\ pending' = NoPlan
               ELSE /\ state' = NoResource
                    /\ op' = Called("Delete", state, replacement, req, resp, NoBody, FALSE, FALSE, FALSE)
                    /\ pending' = Replacing(replacement, state)
    /\ UNCHANGED <<kind, nextId>>

\* ------------------------------------------------------------------------
\* How the API returns a description it stores as the empty string: as
\* the empty string, or not at all.
EmptyRenderings(obj) ==
    IF obj.description = Some("") THEN BOOLEAN ELSE {FALSE}

RenderDescription(description, emptyAsNull) ==
    IF description = Some("") /\ emptyAsNull THEN None ELSE description

OptToString(opt) ==
    IF opt.present THEN opt.v ELSE "null"

\* ------------------------------------------------------------------------
\* corax_project

ProjectConfigs ==
    LET ProjectBase ==
            [name |-> "project-a", description |-> "null"]
    IN  {ProjectBase,
         [ProjectBase EXCEPT !.name = "project-b"],
         [ProjectBase EXCEPT !.description = "about"]}

ProjectPlan(cfg, prior) ==
    [exists |-> TRUE,
     id |-> IF prior = NoResource THEN IdUnknown ELSE prior.id,
     name |-> cfg.name, description |-> cfg.description]

ProjectCreatePayload(data) ==
    [name |-> data.name, description |-> PtrIfSet(data.description)]

\* A description that became null is sent as the empty string.
ProjectUpdatePayload(plan, prior) ==
    [name |-> IF plan.name # prior.name THEN Some(plan.name) ELSE None,
     description |-> IF plan.description = prior.description THEN None
                     ELSE IF plan.description = "null" THEN Some("")
                     ELSE Some(plan.description)]

ProjectStored(id, payload) ==
    [exists |-> TRUE, id |-> id, name |-> payload.name, description |-> payload.description]

ProjectUpdated(obj, payload) ==
    [obj EXCEPT !.name = Apply(@, payload.name),
                !.description = IF payload.description.present THEN payload.description ELSE @]

ProjectRendered(obj, emptyAsNull) ==
    [id |-> obj.id, name |-> obj.name,
     description |-> RenderDescription(obj.description, emptyAsNull)]

mapProjectToModel(project, model) ==
    [exists |-> TRUE, id |-> project.id, name |-> project.name,
     description |-> OptToString(project.description)]

ProjectCreate ==
    /\ kind = "project"
    /\ pending = NoPlan
    /\ state = NoResource
    /\ nextId <= MaxIds
    /\ \E cfg \in ProjectConfigs, resp \in Responses :
        LET plan    == ProjectPlan(cfg, NoResource)
            payload == ProjectCreatePayload(plan)
            stored  == ProjectStored(ApiId(nextId), payload)
        IN  \E emptyAsNull \in Renderings(resp, EmptyRenderings(stored)) :
             LET req  == Request("POST", <<"projects">>, payload)
                 err  == doRequest(resp, TRUE)
                 body == ProjectRendered(stored, emptyAsNull)
             IN  /\ remote' = IF Success(resp) THEN stored ELSE remote
                 /\ nextId' = IF Success(resp) THEN nextId + 1 ELSE nextId
                 /\ IF err # "nil"
                    THEN /\ state' = state
                         /\ op' = Called("Create", state, plan, req, resp, NoBody, TRUE, FALSE, FALSE)
                    ELSE /\ state' = mapProjectToModel(body, plan)
                         /\ op' = Called("Create", state, plan, req, resp, body, FALSE, FALSE, TRUE)
    /\ UNCHANGED <<kind, pending>>

ProjectRead ==
    /\ kind = "project"
    /\ pending = NoPlan
    /\ state # NoResource
    /\ \E resp \in ServerAnswers(remote # Absent /\ remote.id = state.id) :
       \E emptyAsNull \in Renderings(resp, IF Success(resp) THEN EmptyRenderings(remote) ELSE {FALSE}) :
        LET req  == Request("GET", <<"projects", state.id>>, NoBody)
            err  == doRequest(resp, TRUE)
            body == IF Success(resp) THEN ProjectRendered(remote, emptyAsNull) ELSE NoBody
        IN  IF err # "nil"
            THEN IF IsErrNotFound(err)
                 THEN /\ state' = NoResource
                      /\ op' = Called("Read", state, NoPlan, req, resp, NoBody, FALSE, TRUE, FALSE)
                 ELSE /\ state' = state
                      /\ op' = Called("Read", state, NoPlan, req, resp, NoBody, TRUE, FALSE, FALSE)
            ELSE /\ state' = mapProjectToModel(body, state)
                 /\ op' = Called("Read", state, NoPlan, req, resp, body, FALSE, FALSE, TRUE)
    /\ UNCHANGED <<kind, remote, nextId, pending>>

ProjectUpdate ==
    /\ kind = "project"
    /\ pending = NoPlan
    /\ state # NoResource
    /\ \E cfg \in ProjectConfigs :
        LET plan == ProjectPlan(cfg, state)
        IN  \E resp \in ServerAnswers(remote # Absent /\ remote.id = state.id) :
             LET payload == ProjectUpdatePayload(plan, state)
                 stored  == IF Success(resp) THEN ProjectUpdated(remote, payload) ELSE remote
             IN  \E emptyAsNull \in Renderings(resp, IF Success(resp) THEN EmptyRenderings(stored) ELSE {FALSE}) :
                  LET req  == Request("PUT", <<"projects", state.id>>, payload)
                      err  == doRequest(resp, TRUE)
                      body == IF Success(resp) THEN ProjectRendered(stored, emptyAsNull) ELSE NoBody
                  IN  /\ remote' = stored
                      /\ IF err # "nil"
                         THEN /\ state' = state
                              /\ op' = Called("Update", state, plan, req, resp, NoBody, TRUE, FALSE, FALSE)
                         ELSE /\ state' = mapProjectToModel(body, plan)
                              /\ op' = Called("Update", state, plan, req, resp, body, FALSE, FALSE, TRUE)
    /\ UNCHANGED <<kind, nextId, pending>>

ProjectDelete ==
    /\ kind = "project"
    /\ pending = NoPlan
    /\ state # NoResource
    /\ \E resp \in ServerAnswers(remote # Absent /\ remote.id = state.id) :
        LET req == Request("DELETE", <<"projects", state.id>>, NoBody)
            err == doRequest(resp, FALSE)
        IN  /\ remote' = IF Success(resp) THEN Absent ELSE remote
            /\ IF err # "nil"
               THEN IF IsErrNotFound(err)
                    THEN /\ state' = NoResource
                         /\ op' = Called("Delete", state, NoPlan, req, resp, NoBody, FALSE, TRUE, FALSE)
                    ELSE /\ state' = state
                         /\ op' = Called("Delete", state, NoPlan, req, resp, NoBody, TRUE, FALSE, FALSE)
               ELSE /\ state' = NoResource
                    /\ op' = Called("Delete", state, NoPlan, req, resp, NoBody, FALSE, FALSE, FALSE)
    /\ UNCHANGED <<kind, nextId, pending>>

\* ------------------------------------------------------------------------
\* corax_collection

CollectionConfigs ==
    LET CollectionBase ==
            [name |-> "docs-a", project_id |-> "proj-1", embeddings_model_id |-> "null"]
    IN  {CollectionBase,
         [CollectionBase EXCEPT !.name = "docs-b"],
         [CollectionBase EXCEPT !.project_id = "proj-2"],
         [CollectionBase EXCEPT !.embeddings_model_id = "em-1"]}

\* Variant that plans id as unknown on every plan, as if the attribute
\* carried no UseStateForUnknown modifier.
CollectionPlan_IdAlwaysUnknown(cfg, prior) ==
    [exists |-> TRUE,
     id |-> IdUnknown,
     name |-> cfg.name, project_id |-> cfg.project_id,
     embeddings_model_id |-> cfg.embeddings_model_id]

CollectionPlan(cfg, prior) ==
    [exists |-> TRUE,
     id |-> IF prior = NoResource THEN IdUnknown ELSE prior.id,
     name |-> cfg.name, project_id |-> cfg.project_id,
     embeddings_model_id |-> cfg.embeddings_model_id]

CollectionCreatePayload(data) ==
    [name |-> data.name, project_id |-> data.project_id,
     embeddings_model_id |-> PtrIfSet(data.embeddings_model_id)]

CollectionUpdatePayload(plan, prior) ==
    [name |-> IF plan.name # prior.name THEN Some(plan.name) ELSE None,
     embeddings_model_id |-> IF plan.embeddings_model_id # prior.embeddings_model_id
                             THEN PtrIfSet(plan.embeddings_model_id) ELSE None]

\* Faulty variant that always sends the update; C21 must not survive it.
CollectionUpdateNeeded_Always(plan, prior) ==
    plan.name # prior.name \/ plan.name = prior.name

CollectionUpdateNeeded(plan, prior) ==
    plan.name # prior.name \/ plan.embeddings_model_id # prior.embeddings_model_id

CollectionStored(id, payload) ==
    [exists |-> TRUE, id |-> id, name |-> payload.name, project_id |-> payload.project_id,
     embeddings_model_id |-> payload.embeddings_model_id]

CollectionUpdated(obj, payload) ==
    [obj EXCEPT !.name = Apply(@, payload.name),
                !.embeddings_model_id = IF payload.embeddings_model_id.present
                                        THEN payload.embeddings_model_id ELSE @]

CollectionRendered(obj, unused) ==
    [id |-> obj.id, name |-> obj.name, project_id |-> obj.project_id,
     embeddings_model_id |-> obj.embeddings_model_id]

mapCollectionToModel(collection, model) ==
    [exists |-> TRUE, id |-> collection.id, name |-> collection.name,
     project_id |-> collection.project_id,
     embeddings_model_id |-> OptToString(collection.embeddings_model_id)]

CollectionCreate ==
    /\ kind = "collection"
    /\ pending = NoPlan
    /\ state = NoResource
    /\ nextId <= MaxIds
    /\ \E cfg \in CollectionConfigs, resp \in Responses :
        LET plan    == CollectionPlan(cfg, NoResource)
            payload == CollectionCreatePayload(plan)
            stored  == CollectionStored(ApiId(nextId), payload)
        IN  \E unused \in Renderings(resp, {FALSE}) :
             LET req  == Request("POST", <<"collections">>, payload)
                 err  == doRequest(resp, TRUE)
                 body == CollectionRendered(stored, unused)
             IN  /\ remote' = IF Success(resp) THEN stored ELSE remote
                 /\ nextId' = IF Success(resp) THEN nextId + 1 ELSE nextId
                 /\ IF err # "nil"
                    THEN /\ state' = state
                         /\ op' = Called("Create", state, plan, req, resp, NoBody, TRUE, FALSE, FALSE)
                    ELSE /\ state' = mapCollectionToModel(body, plan)
                         /\ op' = Called("Create", state, plan, req, resp, body, FALSE, FALSE, TRUE)
    /\ UNCHANGED <<kind, pending>>

CollectionRead ==
    /\ kind = "collection"
    /\ pending = NoPlan
    /\ state # NoResource
    /\ \E resp \in ServerAnswers(remote # Absent /\ remote.id = state.id) :
       \E unused \in Renderings(resp, {FALSE}) :
        LET req  == Request("GET", <<"collections", state.id>>, NoBody)
            err  == doRequest(resp, TRUE)
            body == IF Success(resp) THEN CollectionRendered(remote, unused) ELSE NoBody
        IN  IF err # "nil"
            THEN IF IsErrNotFound(err)
                 THEN /\ state' = NoResource
                      /\ op' = Called("Read", state, NoPlan, req, resp, NoBody, FALSE, TRUE, FALSE)
                 ELSE /\ state' = state
                      /\ op' = Called("Read", state, NoPlan, req, resp, NoBody, TRUE, FALSE, FALSE)
            ELSE /\ state' = mapCollectionToModel(body, state)
                 /\ op' = Called("Read", state, NoPlan, req, resp, body, FALSE, FALSE, TRUE)
    /\ UNCHANGED <<kind, remote, nextId, pending>>

CollectionUpdate ==
    /\ kind = "collection"
    /\ pending = NoPlan
    /\ state # NoResource
    /\ \E cfg \in CollectionConfigs :
        LET plan == CollectionPlan(cfg, state)
        IN  IF ~CollectionUpdateNeeded(plan, state)
            THEN /\ state' = plan
                 /\ op' = Local("Update", state, plan, FALSE, TRUE)
                 /\ UNCHANGED remote
            ELSE \E resp \in ServerAnswers(remote # Absent /\ remote.id = state.id) :
                  LET payload == CollectionUpdatePayload(plan, state)
                      stored  == IF Success(resp) THEN CollectionUpdated(remote, payload) ELSE remote
                  IN  \E unused \in Renderings(resp, {FALSE}) :
                       LET req  == Request("PUT", <<"collections", state.id>>, payload)
                           err  == doRequest(resp, TRUE)
                           body == IF Success(resp) THEN CollectionRendered(stored, unused) ELSE NoBody
                       IN  /\ remote' = stored
                           /\ IF err # "nil"
                              THEN /\ state' = state
                                   /\ op' = Called("Update", state, plan, req, resp, NoBody, TRUE, FALSE, FALSE)
                              ELSE /\ state' = mapCollectionToModel(body, plan)
                                   /\ op' = Called("Update", state, plan, req, resp, body, FALSE, FALSE, TRUE)
    /\ UNCHANGED <<kind, nextId, pending>>

CollectionDelete ==
    /\ kind = "collection"
    /\ pending = NoPlan
    /\ state # NoResource
    /\ \E resp \in ServerAnswers(remote # Absent /\ remote.id = state.id) :
        LET req == Request("DELETE", <<"collections", state.id>>, NoBody)
            err == doRequest(resp, FALSE)
        IN  /\ remote' = IF Success(resp) THEN Absent ELSE remote
            /\ IF err # "nil"
               THEN IF IsErrNotFound(err)
                    THEN /\ state' = NoResource
                         /\ op' = Called("Delete", state, NoPlan, req, resp, NoBody, FALSE, TRUE, FALSE)
                    ELSE /\ state' = state
                         /\ op' = Called("Delete", state, NoPlan, req, resp, NoBody, TRUE, FALSE, FALSE)
               ELSE /\ state' = NoResource
                    /\ op' = Called("Delete", state, NoPlan, req, resp, NoBody, FALSE, FALSE, FALSE)
    /\ UNCHANGED <<kind, nextId, pending>>

\* ------------------------------------------------------------------------
\* corax_model_deployment

MDConfigs ==
    LET MDBase ==
            [name |-> "gpt-a", provider_id |-> "prov-1", description |-> "null"]
    IN  {MDBase,
         [MDBase EXCEPT !.name = "gpt-b"],
         [MDBase EXCEPT !.provider_id = "prov-2"],
         [MDBase EXCEPT !.description = "about"]}

ModelDeploymentPlan(cfg, prior) ==
    [exists |-> TRUE,
     id |-> IF prior = NoResource THEN IdUnknown ELSE prior.id,
     name |-> cfg.name, provider_id |-> cfg.provider_id, description |-> cfg.description]

modelDeploymentResourceModelToAPICreate(plan) ==
    [name |-> plan.name, provider_id |-> plan.provider_id,
     description |-> PtrIfSet(plan.description)]

\* modelDeploymentResourceModelToAPIUpdate returns the payload and
\* updateNeeded; a changed provider_id enters neither.
modelDeploymentResourceModelToAPIUpdate(plan, prior) ==
    [name |-> IF plan.name # prior.name THEN Some(plan.name) ELSE None,
     description |-> IF plan.description = prior.description THEN None
                     ELSE IF plan.description = "null"
                          THEN (IF prior.description # "null" THEN Some("") ELSE None)
                          ELSE Some(plan.description)]

MDUpdateNeeded(plan, prior) ==
    LET payload == modelDeploymentResourceModelToAPIUpdate(plan, prior)
    IN  payload.name.present \/ payload.description.present

MDStored(id, payload) ==
    [exists |-> TRUE, id |-> id, name |-> payload.name, provider_id |-> payload.provider_id,
     description |-> payload.description]

MDUpdated(obj, payload) ==
    [obj EXCEPT !.name = Apply(@, payload.name),
                !.description = IF payload.description.present THEN payload.description ELSE @]

MDRendered(obj, emptyAsNull) ==
    [id |-> obj.id, name |-> obj.name, provider_id |-> obj.provider_id,
     description |-> RenderDescription(obj.description, emptyAsNull)]

mapAPIModelDeploymentToResourceModel(apiDeployment, model) ==
    [exists |-> TRUE, id |-> apiDeployment.id, name |-> apiDeployment.name,
     provider_id |-> apiDeployment.provider_id,
     description |-> OptToString(apiDeployment.description)]

ModelDeploymentCreate ==
    /\ kind = "model_deployment"
    /\ pending = NoPlan
    /\ state = NoResource
    /\ nextId <= MaxIds
    /\ \E cfg \in MDConfigs, resp \in Responses :
        LET plan    == ModelDeploymentPlan(cfg, NoResource)
            payload == modelDeploymentResourceModelToAPICreate(plan)
            stored  == MDStored(ApiId(nextId), payload)
        IN  \E emptyAsNull \in Renderings(resp, EmptyRenderings(stored)) :
             LET req  == Request("POST", <<"model-deployments">>, payload)
                 err  == doRequest(resp, TRUE)
                 body == MDRendered(stored, emptyAsNull)
             IN  /\ remote' = IF Success(resp) THEN stored ELSE remote
                 /\ nextId' = IF Success(resp) THEN nextId + 1 ELSE nextId
                 /\ IF err # "nil"
                    THEN /\ state' = state
                         /\ op' = Called("Create", state, plan, req, resp, NoBody, TRUE, FALSE, FALSE)
                    ELSE /\ state' = mapAPIModelDeploymentToResourceModel(body, plan)
                         /\ op' = Called("Create", state, plan, req, resp, body, FALSE, FALSE, TRUE)
    /\ UNCHANGED <<kind, pending>>

ModelDeploymentRead ==
    /\ kind = "model_deployment"
    /\ pending = NoPlan
    /\ state # NoResource
    /\ \E resp \in ServerAnswers(remote # Absent /\ remote.id = state.id) :
       \E emptyAsNull \in Renderings(resp, IF Success(resp) THEN EmptyRenderings(remote) ELSE {FALSE}) :
        LET req  == Request("GET", <<"model-deployments", state.id>>, NoBody)
            err  == doRequest(resp, TRUE)
            body == IF Success(resp) THEN MDRendered(remote, emptyAsNull) ELSE NoBody
        IN  IF err # "nil"
            THEN IF IsErrNotFound(err)
                 THEN /\ state' = NoResource
                      /\ op' = Called("Read", state, NoPlan, req, resp, NoBody, FALSE, TRUE, FALSE)
                 ELSE /\ state' = state
                      /\ op' = Called("Read", state, NoPlan, req, resp, NoBody, TRUE, FALSE, FALSE)
            ELSE /\ state' = mapAPIModelDeploymentToResourceModel(body, state)
                 /\ op' = Called("Read", state, NoPlan, req, resp, body, FALSE, FALSE, TRUE)
    /\ UNCHANGED <<kind, remote, nextId, pending>>

ModelDeploymentUpdate ==
    /\ kind = "model_deployment"
    /\ pending = NoPlan
    /\ state # NoResource
    /\ \E cfg \in MDConfigs :
        LET plan == ModelDeploymentPlan(cfg, state)
        IN  IF ~MDUpdateNeeded(plan, state)
            THEN /\ state' = plan
                 /\ op' = Local("Update", state, plan, FALSE, TRUE)
                 /\ UNCHANGED remote
            ELSE \E resp \in ServerAnswers(remote # Absent /\ remote.id = state.id) :
                  LET payload == modelDeploymentResourceModelToAPIUpdate(plan, state)
                      stored  == IF Success(resp) THEN MDUpdated(remote, payload) ELSE remote
                  IN  \E emptyAsNull \in Renderings(resp, IF Success(resp) THEN EmptyRenderings(stored) ELSE {FALSE}) :
                       LET req  == Request("PUT", <<"model-deployments", state.id>>, payload)
                           err  == doRequest(resp, TRUE)
                           body == IF Success(resp) THEN MDRendered(stored, emptyAsNull) ELSE NoBody
                       IN  /\ remote' = stored
                           /\ IF err # "nil"
                              THEN /\ state' = state
                                   /\ op' = Called("Update", state, plan, req, resp, NoBody, TRUE, FALSE, FALSE)
                              ELSE /\ state' = mapAPIModelDeploymentToResourceModel(body, plan)
                                   /\ op' = Called("Update", state, plan, req, resp, body, FALSE, FALSE, TRUE)
    /\ UNCHANGED <<kind, nextId, pending>>

ModelDeploymentDelete ==
    /\ kind = "model_deployment"
    /\ pending = NoPlan
    /\ state # NoResource
    /\ \E resp \in ServerAnswers(remote # Absent /\ remote.id = state.id) :
        LET req == Request("DELETE", <<"model-deployments", state.id>>, NoBody)
            err == doRequest(resp, FALSE)
        IN  /\ remote' = IF Success(resp) THEN Absent ELSE remote
            /\ IF err # "nil"
               THEN IF IsErrNotFound(err)
                    THEN /\ state' = NoResource
                         /\ op' = Called("Delete", state, NoPlan, req, resp, NoBody, FALSE, TRUE, FALSE)
                    ELSE /\ state' = state
                         /\ op' = Called("Delete", state, NoPlan, req, resp, NoBody, TRUE, FALSE, FALSE)
               ELSE /\ state' = NoResource
                    /\ op' = Called("Delete", state, NoPlan, req, resp, NoBody, FALSE, FALSE, FALSE)
    /\ UNCHANGED <<kind, nextId, pending>>

\* ------------------------------------------------------------------------
\* The config block of the capabilities.  Of the block only data_retention
\* is modelled, and a config is held as its data_retention.  The source
\* has the block in two forms: type and hours, with a validator of its
\* own, and the nested blocks timed and infinite.

\* Faulty variant of the validator that never complains; C13 must not
\* survive it.
dataRetentionValidator_Silent(dataRetention) ==
    FALSE

\* ValidateObject: TRUE when it adds an error.
dataRetentionValidator(dataRetention) ==
    LET hoursIsSet == dataRetention.hours.present
    IN  CASE dataRetention.type = "timed" -> ~hoursIsSet
          [] dataRetention.type = "infinite" -> hoursIsSet
          [] OTHER -> FALSE

\* data_retention of the type/hours form as the schema accepts it: type
\* is OneOf("timed", "infinite"), hours is AtLeast(1) when given, and the
\* object passes dataRetentionValidator.
DataRetentionAccepted(dataRetention) ==
    /\ dataRetention.type \in {"timed", "infinite"}
    /\ dataRetention.hours.present => dataRetention.hours.v >= 1
    /\ ~dataRetentionValidator(dataRetention)

\* data_retention of the timed/infinite form as the schema accepts it:
\* timed.hours is AtLeast(1), each block ConflictsWith the other, and
\* ExactlyOneOf them is given.  infinite.enabled is Required and
\* otherwise unconstrained.
DataRetentionBlocksAccepted(dataRetention) ==
    /\ dataRetention.timed.present => dataRetention.timed.v >= 1
    /\ ~(dataRetention.timed.present /\ dataRetention.infinite.present)
    /\ dataRetention.timed.present # dataRetention.infinite.present

\* The type/hours form to the API: hours is carried only for "timed".
capabilityConfigModelToAPI(modelConfig) ==
    IF modelConfig.form = "null" THEN None
    ELSE Some([type |-> modelConfig.type,
               hours |-> IF modelConfig.type = "timed" THEN modelConfig.hours ELSE None])

\* The timed/infinite form to the API: an infinite block that is not
\* enabled sets nothing, and a config that sets nothing is not sent.
capabilityConfigModelToAPIBlocks(modelConfig) ==
    IF modelConfig.form = "null" THEN None
    ELSE IF modelConfig.timed.present
    THEN Some([type |-> "timed", hours |-> modelConfig.timed])
    ELSE IF modelConfig.infinite.present /\ modelConfig.infinite.v
    THEN Some([type |-> "infinite", hours |-> None])
    ELSE None

capabilityConfigAPItoModel(apiConfig) ==
    IF ~apiConfig.present THEN [form |-> "null"]
    ELSE [form |-> "type_hours", type |-> apiConfig.v.type,
          hours |-> IF apiConfig.v.type = "timed" THEN apiConfig.v.hours ELSE None]

capabilityConfigAPItoModelBlocks(apiConfig) ==
    IF ~apiConfig.present THEN [form |-> "null"]
    ELSE [form |-> "blocks",
          timed |-> IF apiConfig.v.type = "timed" THEN apiConfig.v.hours ELSE None,
          infinite |-> IF apiConfig.v.type = "timed" /\ apiConfig.v.hours.present THEN None
                       ELSE IF apiConfig.v.type = "infinite" THEN Some(TRUE) ELSE None]

\* ------------------------------------------------------------------------
\* corax_chat_capability, in the two versions the source has: kind
\* "chat_capability" with data_retention as type and hours, and kind
\* "chat_capability_blocks" with the timed and infinite blocks.  Their
\* handlers are alike.

\* Configurations as written, before validation.
ChatConfigs ==
    LET ChatBase ==
            [name |-> "assistant-a", system_prompt |-> "You are helpful.", model_id |-> "null",
             config |-> [form |-> "null"]]
        hoursGiven == {None, Some(0), Some(24)}
    IN  {ChatBase,
         [ChatBase EXCEPT !.name = "assistant-b"],
         [ChatBase EXCEPT !.system_prompt = "You are terse."],
         [ChatBase EXCEPT !.model_id = "md-1"]}
        \cup (IF kind = "chat_capability"
              THEN {[ChatBase EXCEPT !.config = [form |-> "type_hours", type |-> t, hours |-> h]] :
                        t \in {"timed", "infinite", "forever"}, h \in hoursGiven}
              ELSE {[ChatBase EXCEPT !.config = [form |-> "blocks", timed |-> h, infinite |-> e]] :
                        h \in hoursGiven, e \in {None, Some(FALSE), Some(TRUE)}})

\* The configurations Terraform lets through to the handlers: those the
\* validators of the schema accept.
ChatAcceptedConfigs ==
    {cfg \in ChatConfigs :
        CASE cfg.config.form = "type_hours" -> DataRetentionAccepted(cfg.config)
          [] cfg.config.form = "blocks" -> DataRetentionBlocksAccepted(cfg.config)
          [] OTHER -> TRUE}

ChatCapabilityPlan(cfg, prior) ==
    [exists |-> TRUE,
     id |-> IF prior = NoResource THEN IdUnknown ELSE prior.id,
     type |-> IF prior = NoResource THEN "unknown" ELSE prior.type,
     name |-> cfg.name, system_prompt |-> cfg.system_prompt, model_id |-> cfg.model_id,
     config |-> cfg.config]

ChatCapabilityCreatePayload(plan) ==
    [name |-> plan.name, type |-> "chat", system_prompt |-> plan.system_prompt,
     model_id |-> PtrIfSet(plan.model_id),
     config |-> IF kind = "chat_capability" THEN capabilityConfigModelToAPI(plan.config)
                ELSE capabilityConfigModelToAPIBlocks(plan.config)]

ChatCapabilityUpdatePayload(plan, prior) ==
    [name |-> IF plan.name # prior.name THEN Some(plan.name) ELSE None,
     system_prompt |-> IF plan.system_prompt # prior.system_prompt
                       THEN Some(plan.system_prompt) ELSE None,
     model_id |-> IF plan.model_id # prior.model_id THEN PtrIfSet(plan.model_id) ELSE None,
     config |-> IF plan.config = prior.config THEN None
                ELSE IF kind = "chat_capability" THEN capabilityConfigModelToAPI(plan.config)
                ELSE capabilityConfigModelToAPIBlocks(plan.config)]

ChatUpdateNeeded(plan, prior) ==
    \/ plan.name # prior.name
    \/ plan.system_prompt # prior.system_prompt
    \/ plan.model_id # prior.model_id
    \/ plan.config # prior.config

ChatStored(id, payload) ==
    [exists |-> TRUE, id |-> id, type |-> payload.type, name |-> payload.name,
     system_prompt |-> payload.system_prompt, model_id |-> payload.model_id,
     config |-> payload.config]

\* A field left out of the update (nil pointer, omitempty) is left as it
\* is by the API.
ChatUpdated(obj, payload) ==
    [obj EXCEPT !.name = Apply(@, payload.name),
                !.system_prompt = Apply(@, payload.system_prompt),
                !.model_id = IF payload.model_id.present THEN payload.model_id ELSE @,
                !.config = IF payload.config.present THEN payload.config ELSE @]

ChatRendered(obj, unused) ==
    [id |-> obj.id, type |-> obj.type, name |-> obj.name,
     configuration |-> [system_prompt |-> obj.system_prompt],
     model_id |-> obj.model_id,
     config |-> obj.config]

mapAPICapabilityToChatModel(apiCap, model) ==
    [exists |-> TRUE, id |-> apiCap.id, type |-> apiCap.type, name |-> apiCap.name,
     system_prompt |-> apiCap.configuration.system_prompt,
     model_id |-> OptToString(apiCap.model_id),
     config |-> IF kind = "chat_capability" THEN capabilityConfigAPItoModel(apiCap.config)
                ELSE capabilityConfigAPItoModelBlocks(apiCap.config)]

ChatCapabilityCreate ==
    /\ kind \in {"chat_capability", "chat_capability_blocks"}
    /\ pending = NoPlan
    /\ state = NoResource
    /\ nextId <= MaxIds
    /\ \E cfg \in ChatAcceptedConfigs, resp \in Responses :
        LET plan    == ChatCapabilityPlan(cfg, NoResource)
            payload == ChatCapabilityCreatePayload(plan)
            stored  == ChatStored(ApiId(nextId), payload)
        IN  \E unused \in Renderings(resp, {FALSE}) :
             LET req  == Request("POST", <<"capabilities">>, payload)
                 err  == doRequest(resp, TRUE)
                 body == ChatRendered(stored, unused)
             IN  /\ remote' = IF Success(resp) THEN stored ELSE remote
                 /\ nextId' = IF Success(resp) THEN nextId + 1 ELSE nextId
                 /\ IF err # "nil"
                    THEN /\ state' = state
                         /\ op' = Called("Create", state, plan, req, resp, NoBody, TRUE, FALSE, FALSE)
                    ELSE /\ state' = mapAPICapabilityToChatModel(body, plan)
                         /\ op' = Called("Create", state, plan, req, resp, body, FALSE, FALSE, TRUE)
    /\ UNCHANGED <<kind, pending>>

\* terraform import, as for the completion capability.
ChatCapabilityImportState ==
    /\ kind \in {"chat_capability", "chat_capability_blocks"}
    /\ pending = NoPlan
    /\ state = NoResource
    /\ remote = Absent
    /\ nextId <= MaxIds
    /\ \E type \in {"chat", "completion"} :
        LET id == ApiId(nextId)
            foreign == [exists |-> TRUE, id |-> id, type |-> type, name |-> "assistant-a",
                        system_prompt |-> "You are helpful.", model_id |-> None,
                        config |-> None]
        IN  /\ remote' = foreign
            /\ state' = [exists |-> TRUE, id |-> id, type |-> "null", name |-> "null",
                         system_prompt |-> "null", model_id |-> "null",
                         config |-> [form |-> "null"]]
            /\ op' = Local("ImportState", state, NoPlan, FALSE, TRUE)
    /\ nextId' = nextId + 1
    /\ UNCHANGED <<kind, pending>>

\* Faulty variant of Read that maps whatever capability the API returns;
\* C22 must not survive it.
ChatCapabilityRead_NoTypeCheck ==
    /\ kind \in {"chat_capability", "chat_capability_blocks"}
    /\ pending = NoPlan
    /\ state # NoResource
    /\ \E resp \in ServerAnswers(remote # Absent /\ remote.id = state.id) :
       \E unused \in Renderings(resp, {FALSE}) :
        LET req  == Request("GET", <<"capabilities", state.id>>, NoBody)
            err  == doRequest(resp, TRUE)
            body == IF Success(resp) THEN ChatRendered(remote, unused) ELSE NoBody
        IN  IF err # "nil"
            THEN IF IsErrNotFound(err)
                 THEN /\ state' = NoResource
                      /\ op' = Called("Read", state, NoPlan, req, resp, NoBody, FALSE, TRUE, FALSE)
                 ELSE /\ state' = state
                      /\ op' = Called("Read", state, NoPlan, req, resp, NoBody, TRUE, FALSE, FALSE)
            ELSE /\ state' = mapAPICapabilityToChatModel(body, state)
                 /\ op' = Called("Read", state, NoPlan, req, resp, body, FALSE, FALSE, TRUE)
    /\ UNCHANGED <<kind, remote, nextId, pending>>

ChatCapabilityRead ==
    /\ kind \in {"chat_capability", "chat_capability_blocks"}
    /\ pending = NoPlan
    /\ state # NoResource
    /\ \E resp \in ServerAnswers(remote # Absent /\ remote.id = state.id) :
       \E unused \in Renderings(resp, {FALSE}) :
        LET req  == Request("GET", <<"capabilities", state.id>>, NoBody)
            err  == doRequest(resp, TRUE)
            body == IF Success(resp) THEN ChatRendered(remote, unused) ELSE NoBody
        IN  IF err # "nil"
            THEN IF IsErrNotFound(err)
                 THEN /\ state' = NoResource
                      /\ op' = Called("Read", state, NoPlan, req, resp, NoBody, FALSE, TRUE, FALSE)
                 ELSE /\ state' = state
                      /\ op' = Called("Read", state, NoPlan, req, resp, NoBody, TRUE, FALSE, FALSE)
            ELSE IF body.type # "chat"
                 THEN /\ state' = NoResource
                      /\ op' = Called("Read", state, NoPlan, req, resp, body, TRUE, TRUE, FALSE)
                 ELSE /\ state' = mapAPICapabilityToChatModel(body, state)
                      /\ op' = Called("Read", state, NoPlan, req, resp, body, FALSE, FALSE, TRUE)
    /\ UNCHANGED <<kind, remote, nextId, pending>>

ChatCapabilityUpdate ==
    /\ kind \in {"chat_capability", "chat_capability_blocks"}
    /\ pending = NoPlan
    /\ state # NoResource
    /\ \E cfg \in ChatAcceptedConfigs :
        LET plan == ChatCapabilityPlan(cfg, state)
        IN  IF ~ChatUpdateNeeded(plan, state)
            THEN /\ state' = plan
                 /\ op' = Local("Update", state, plan, FALSE, TRUE)
                 /\ UNCHANGED remote
            ELSE \E resp \in ServerAnswers(remote # Absent /\ remote.id = state.id) :
                  LET payload == ChatCapabilityUpdatePayload(plan, state)
                      stored  == IF Success(resp) THEN ChatUpdated(remote, payload) ELSE remote
                  IN  \E unused \in Renderings(resp, {FALSE}) :
                       LET req  == Request("PUT", <<"capabilities", state.id>>, payload)
                           err  == doRequest(resp, TRUE)
                           body == IF Success(resp) THEN ChatRendered(stored, unused) ELSE NoBody
                       IN  /\ remote' = stored
                           /\ IF err # "nil"
                              THEN /\ state' = state
                                   /\ op' = Called("Update", state, plan, req, resp, NoBody, TRUE, FALSE, FALSE)
                              ELSE /\ state' = mapAPICapabilityToChatModel(body, plan)
                                   /\ op' = Called("Update", state, plan, req, resp, body, FALSE, FALSE, TRUE)
    /\ UNCHANGED <<kind, nextId, pending>>

ChatCapabilityDelete ==
    /\ kind \in {"chat_capability", "chat_capability_blocks"}
    /\ pending = NoPlan
    /\ state # NoResource
    /\ \E resp \in ServerAnswers(remote # Absent /\ remote.id = state.id) :
        LET req == Request("DELETE", <<"capabilities", state.id>>, NoBody)
            err == doRequest(resp, FALSE)
        IN  /\ remote' = IF Success(resp) THEN Absent ELSE remote
            /\ IF err # "nil"
               THEN IF IsErrNotFound(err)
                    THEN /\ state' = NoResource
                         /\ op' = Called("Delete", state, NoPlan, req, resp, NoBody, FALSE, TRUE, FALSE)
                    ELSE /\ state' = state
                         /\ op' = Called("Delete", state, NoPlan, req, resp, NoBody, TRUE, FALSE, FALSE)
               ELSE /\ state' = NoResource
                    /\ op' = Called("Delete", state, NoPlan, req, resp, NoBody, FALSE, FALSE, FALSE)
    /\ UNCHANGED <<kind, nextId, pending>>

\* ------------------------------------------------------------------------
\* Provider configuration (CoraxProvider.Configure, coraxclient.NewClient)
\*
\* A provider attribute is "null" when the block leaves it out; an
\* environment variable that is not set reads as "".

\* The value Configure goes on with: the attribute unless it is null or
\* "", then the environment variable if that is non-empty.  ValueString()
\* of a null attribute is "".
ResolveSetting_EnvFirst(attribute, env) ==
    IF env # "" THEN env
    ELSE IF attribute = "null" THEN "" ELSE attribute

ResolveSetting(attribute, env) ==
    IF (attribute = "null" \/ attribute = "") /\ env # "" THEN env
    ELSE IF attribute = "null" THEN "" ELSE attribute

\* ParsesAsAbsoluteURL: url.ParseRequestURI accepts the string and it has
\* a scheme and a host.
NewClient(baseURLStr, apiKey) ==
    LET TrimSpace(s) == IF s = " " THEN "" ELSE s
        ParsesAsAbsoluteURL ==
            baseURLStr \in {"https://api.corax.ai", "https://env.corax.ai"}
    IN  IF TrimSpace(baseURLStr) = "" THEN [err |-> TRUE]
        ELSE IF TrimSpace(apiKey) = "" THEN [err |-> TRUE]
        ELSE IF ~ParsesAsAbsoluteURL THEN [err |-> TRUE]
        ELSE [err |-> FALSE,
              client |-> [exists |-> TRUE, BaseURL |-> baseURLStr, APIKey |-> apiKey]]

\* op.plan is the provider block with the environment Configure ran in,
\* op.body the client handed to resources and data sources.
ProviderConfigure ==
    /\ kind = "provider"
    /\ \E api_endpoint \in {"null", "", "https://api.corax.ai", "api.corax.ai"},
          envEndpoint \in {"", "https://env.corax.ai"},
          api_key \in {"null", "", " ", "key-cfg"},
          envKey \in {"", "key-env"} :
        LET data == [api_endpoint |-> api_endpoint, api_key |-> api_key,
                     CORAX_API_ENDPOINT |-> envEndpoint, CORAX_API_KEY |-> envKey]
            endpoint == ResolveSetting(api_endpoint, envEndpoint)
            key == ResolveSetting(api_key, envKey)
            missing == endpoint = "" \/ key = ""
            made == NewClient(endpoint, key)
        IN  op' = [NoOp EXCEPT !.name = "Configure", !.plan = data,
                               !.diagError = missing \/ made.err,
                               !.body = IF missing \/ made.err THEN NoBody ELSE made.client]
    /\ UNCHANGED <<kind, state, remote, nextId, pending>>

\* ------------------------------------------------------------------------
\* custom_parameters of a capability config (customParametersToAPI)
\*
\* A types.Dynamic value is null, unknown, or wraps a string, an object or
\* a map, each of which may itself be null.  `text' is the string,
\* `attrs' the attributes of an object or the elements of a map.  A Go
\* value is written [t |-> its Go type, v |-> its printed form].

\* What the function hands back: the map (None for a nil map) and whether
\* it added an error diagnostic.  json.Unmarshal decodes a JSON number as
\* float64.
customParametersToAPI_EmptyStringIsNull(customParams) ==
    LET Unmarshal(text) ==
            CASE text = "{\"key1\":\"value1\",\"key2\":123,\"key3\":true}" ->
                    [err |-> FALSE,
                     m |-> [k \in {"key1", "key2", "key3"} |->
                             CASE k = "key1" -> [t |-> "string", v |-> "value1"]
                               [] k = "key2" -> [t |-> "float64", v |-> "123"]
                               [] OTHER -> [t |-> "bool", v |-> "true"]]]
              [] text = "{}" -> [err |-> FALSE, m |-> <<>>]
              [] OTHER -> [err |-> TRUE, m |-> <<>>]
    IN  IF customParams.type \in {"null", "unknown"} \/ customParams.null
           \/ (customParams.type = "string" /\ customParams.text = "")
        THEN [result |-> None, err |-> FALSE]
        ELSE IF customParams.type = "string"
        THEN IF Unmarshal(customParams.text).err
             THEN [result |-> None, err |-> TRUE]
             ELSE [result |-> Some(Unmarshal(customParams.text).m), err |-> FALSE]
        ELSE [result |-> Some(customParams.attrs), err |-> FALSE]

customParametersToAPI(customParams) ==
    LET Unmarshal(text) ==
            CASE text = "{\"key1\":\"value1\",\"key2\":123,\"key3\":true}" ->
                    [err |-> FALSE,
                     m |-> [k \in {"key1", "key2", "key3"} |->
                             CASE k = "key1" -> [t |-> "string", v |-> "value1"]
                               [] k = "key2" -> [t |-> "float64", v |-> "123"]
                               [] OTHER -> [t |-> "bool", v |-> "true"]]]
              [] text = "{}" -> [err |-> FALSE, m |-> <<>>]
              [] OTHER -> [err |-> TRUE, m |-> <<>>]
    IN  IF customParams.type \in {"null", "unknown"} \/ customParams.null
        THEN [result |-> None, err |-> FALSE]
        ELSE IF customParams.type = "string"
        THEN IF Unmarshal(customParams.text).err
             THEN [result |-> None, err |-> TRUE]
             ELSE [result |-> Some(Unmarshal(customParams.text).m), err |-> FALSE]
        ELSE [result |-> Some(customParams.attrs), err |-> FALSE]

\* One call of the function, as the table-driven test makes it: op.plan
\* is the input, op.body the returned map, op.diagError diags.HasError().
CustomParametersToAPI ==
    /\ kind = "custom_parameters"
    /\ \E input \in
        LET Of(type, null, text, attrs) ==
                [type |-> type, null |-> null, text |-> text, attrs |-> attrs]
            userScenario ==
                [k \in {"reasoning_effort", "verbosity"} |->
                    [t |-> "string",
                     v |-> IF k = "reasoning_effort" THEN "minimal" ELSE "low"]]
            mixed ==
                [k \in {"temperature", "max_tokens", "stream"} |->
                    CASE k = "temperature" -> [t |-> "float64", v |-> "0.7"]
                      [] k = "max_tokens" -> [t |-> "int64", v |-> "1000"]
                      [] OTHER -> [t |-> "bool", v |-> "true"]]
            strings ==
                [k \in {"key1", "key2"} |->
                    [t |-> "string", v |-> IF k = "key1" THEN "value1" ELSE "value2"]]
        IN  {Of("null", TRUE, "", <<>>), Of("unknown", FALSE, "", <<>>),
             Of("string", TRUE, "", <<>>), Of("object", TRUE, "", <<>>)}
            \cup {Of("string", FALSE, text, <<>>) :
                    text \in {"{\"key1\":\"value1\",\"key2\":123,\"key3\":true}",
                              "{invalid json}", "", "{}"}}
            \cup {Of("object", FALSE, "", attrs) : attrs \in {userScenario, mixed}}
            \cup {Of("map", FALSE, "", strings)} :
        LET out == customParametersToAPI(input)
        IN  op' = [NoOp EXCEPT !.name = "customParametersToAPI", !.plan = input,
                               !.body = out.result, !.diagError = out.err]
    /\ UNCHANGED <<kind, state, remote, nextId, pending>>

\* ------------------------------------------------------------------------
\* The schema_def plan modifier on its own: Terraform hands it the planned
\* value (op.plan) and takes back the modified one (op.body).

PlanModifySchemaDef ==
    /\ kind = "schema_def"
    /\ \E planValue \in
            {DynamicNull, [form |-> "unknown"],
             [form |-> "object", keys |-> {"type", "properties"}]}
            \cup {DynamicString(text) :
                    text \in {<<"{", "type", "properties", "}">>,
                              <<"{", "properties", "type", "}">>,
                              <<"{", " ", "type", " ", "properties", "}">>,
                              <<" ", "{", "properties", "type", "}", " ">>,
                              <<"{", "type", "}">>, <<"{", " ", "type", "}">>,
                              <<"{", "}">>, <<"{", " ", "}">>,
                              <<>>, <<" ">>, <<"{invalid">>, <<"{", "type">>}} :
        op' = [NoOp EXCEPT !.name = "PlanModifyDynamic", !.plan = planValue,
                           !.body = PlanModifyDynamic(planValue)]
    /\ UNCHANGED <<kind, state, remote, nextId, pending>>

\* ------------------------------------------------------------------------
\* Environment: the object is deleted on the API side behind Terraform's
\* back (the situation the handlers' 404 branches exist for).

RemoteDeletedOutOfBand ==
    /\ pending = NoPlan
    /\ state # NoResource
    /\ remote # Absent
    /\ kind # "capability_type_default_model"
    /\ remote' = Absent
    /\ UNCHANGED <<kind, state, nextId, op, pending>>

\* ------------------------------------------------------------------------

InitialRemote(k) ==
    IF k = "capability_type_default_model" THEN [exists |-> TRUE, default |-> [t \in CapabilityTypes |-> "null"]]
    ELSE Absent

Init ==
    /\ kind \in Kinds
    /\ state = NoResource
    /\ remote = InitialRemote(kind)
    /\ nextId = 1
    /\ op = NoOp
    /\ pending = NoPlan

Next ==
    \/ ModelProviderCreate
    \/ ModelProviderRead
    \/ ModelProviderUpdate
    \/ ModelProviderDelete
    \/ CapabilityTypeDefaultModelCreate
    \/ CapabilityTypeDefaultModelRead
    \/ CapabilityTypeDefaultModelUpdate
    \/ CapabilityTypeDefaultModelDelete
    \/ CompletionCapabilityCreate
    \/ CompletionCapabilityRead
    \/ CompletionCapabilityUpdate
    \/ CompletionCapabilityDelete
    \/ CompletionCapabilityImportState
    \/ EmbeddingsModelCreate
    \/ EmbeddingsModelRead
    \/ EmbeddingsModelUpdate
    \/ EmbeddingsModelDelete
    \/ DocumentCreate
    \/ DocumentRead
    \/ DocumentUpdate
    \/ DocumentDelete
    \/ ProjectCreate
    \/ ProjectRead
    \/ ProjectUpdate
    \/ ProjectDelete
    \/ CollectionCreate
    \/ CollectionRead
    \/ CollectionUpdate
    \/ CollectionDelete
    \/ ModelDeploymentCreate
    \/ ModelDeploymentRead
    \/ ModelDeploymentUpdate
    \/ ModelDeploymentDelete
    \/ ChatCapabilityCreate
    \/ ChatCapabilityRead
    \/ ChatCapabilityUpdate
    \/ ChatCapabilityDelete
    \/ ChatCapabilityImportState
    \/ ProviderConfigure
    \/ CustomParametersToAPI
    \/ PlanModifySchemaDef
    \/ RemoteDeletedOutOfBand

Spec == Init /\ [][Next]_vars

\* ------------------------------------------------------------------------
\* Properties

Sent == Len(op.reqs)

Answered(code) ==
    Sent = 1 /\ ~op.resp.transportErr /\ op.resp.StatusCode = code

\* C1: for every resource type, a Read whose GET is answered with 404
\* removes the resource from state.
C1_ReadNotFoundRemovesResource ==
    (op.name = "Read" /\ Answered(404)) => (state = NoResource /\ op.removed)

\* C2: for every resource type and each of Create, Read, Update and
\* Delete, an answer with a status outside 2xx other than 404 ends the
\* operation with an error diagnostic: nothing is written to state.
C2_OtherFailureIsErrorDiagnostic ==
    (/\ op.name \in {"Create", "Read", "Update", "Delete"}
     /\ Sent = 1
     /\ ~op.resp.transportErr
     /\ (op.resp.StatusCode < 200 \/ op.resp.StatusCode >= 300)
     /\ op.resp.StatusCode # 404)
    => (op.diagError /\ ~op.set /\ ~op.removed /\ state = op.prior)

C2_Witness ==
    /\ op.name = "Update"
    /\ Sent = 1
    /\ ~op.resp.transportErr
    /\ op.resp.StatusCode = 500
    /\ op.diagError
    /\ state = op.prior

\* C3: corax_model_provider: after Create or Read the api_key held in
\* state's configuration is the full api_key of the plan (Create) or of
\* the prior state (Read), whatever api_key the response carried.
C3_ApiKeyKeptInFull ==
    (kind = "model_provider" /\ op.name \in {"Create", "Read"} /\ op.set)
    => state.configuration.api_key =
         (IF op.name = "Create" THEN op.plan.configuration.api_key
          ELSE op.prior.configuration.api_key)

\* C4: corax_completion_capability: variables is insensitive to order:
\* when the response lists the planned names (the names of prior state,
\* for Read) in any order, the value that Create, Update or Read writes
\* to state is the planned value.
C4_VariablesOrderInsensitive ==
    LET planned == IF op.name = "Read" THEN op.prior.variables ELSE op.plan.variables
    IN  (/\ kind = "completion_capability"
         /\ op.name \in {"Create", "Read", "Update"}
         /\ Sent = 1
         /\ op.set
         /\ ~planned.null
         /\ op.body.variables.form = "list"
         /\ Elems(op.body.variables.elems) = Elems(planned.elems))
        => state.variables = planned

C6_UpdateKeepsPlannedConfiguration ==
    (kind = "model_provider" /\ op.name = "Update" /\ op.set)
    => state.configuration = op.plan.configuration

\* C7: corax_completion_capability: no Create or Update whose plan has
\* output_type "schema" and a null schema_def sends a request; it ends
\* with an error diagnostic.
C7_SchemaDefRequiredForSchemaOutput ==
    (/\ kind = "completion_capability"
     /\ op.name \in {"Create", "Update"}
     /\ op.plan.output_type = "schema"
     /\ op.plan.schema_def.form = "null")
    => (Sent = 0 /\ op.diagError)

\* C8: corax_completion_capability: after an Update that changes
\* output_type from "schema" to "text" and removes schema_def, schema_def
\* is null in state, as planned.
C8_SchemaDefClearedOnTextOutput ==
    (/\ kind = "completion_capability"
     /\ op.name = "Update"
     /\ op.set
     /\ op.prior.output_type = "schema"
     /\ op.prior.schema_def.form # "null"
     /\ op.plan.output_type = "text"
     /\ op.plan.schema_def.form = "null")
    => state.schema_def = op.plan.schema_def

\* C9: corax_embeddings_model: a change of model_provider,
\* model_name_on_provider, dimensions or max_tokens never reaches Update:
\* every Update has them as in prior state and its request carries only
\* name and api_key; the change is applied by a Delete followed by a
\* Create, which leaves the planned values under an id other than the
\* replaced one.
C9_ImmutableAttributesReplace ==
    /\ (kind = "embeddings_model" /\ op.name = "Update") =>
        /\ op.plan.model_provider = op.prior.model_provider
        /\ op.plan.model_name_on_provider = op.prior.model_name_on_provider
        /\ op.plan.dimensions = op.prior.dimensions
        /\ op.plan.max_tokens = op.prior.max_tokens
        /\ Sent = 1 => DOMAIN op.reqs[1].body = {"name", "api_key"}
        /\ op.set => state.id = op.prior.id
    /\ (kind = "embeddings_model" /\ op.name = "Create" /\ op.replaced # NoResource /\ op.set) =>
        /\ state.id # op.replaced.id
        /\ state.model_provider = op.plan.model_provider
        /\ state.model_name_on_provider = op.plan.model_name_on_provider
        /\ state.dimensions = op.plan.dimensions

C9_Witness ==
    /\ kind = "embeddings_model"
    /\ op.name = "Create"
    /\ op.set
    /\ op.replaced # NoResource
    /\ op.replaced.dimensions = "1536"
    /\ state.dimensions = "3072"
    /\ state.id # op.replaced.id

\* C10: corax_document: Update never moves a document: its request goes
\* to the collection_id and id of prior state and leaves both in state;
\* a change of collection_id or of a configured id never reaches Update,
\* it is applied by a Delete followed by a Create.
C10_UpdateNeverMovesDocument ==
    /\ (kind = "document" /\ op.name = "Update") =>
        /\ op.plan.collection_id = op.prior.collection_id
        /\ op.plan.id = op.prior.id
        /\ Sent = 1 =>
            /\ op.reqs[1].method = "PUT"
            /\ op.reqs[1].path = <<"collections", op.prior.collection_id, "documents", op.prior.id>>
        /\ op.set => (state.collection_id = op.prior.collection_id /\ state.id = op.prior.id)
    /\ (kind = "document" /\ op.name = "Create" /\ op.replaced # NoResource /\ Sent = 1) =>
        /\ \/ op.plan.collection_id # op.replaced.collection_id
           \/ op.plan.id # IdUnknown /\ op.plan.id # op.replaced.id
        /\ op.reqs[1].path[2] = op.plan.collection_id

C10_Witness ==
    /\ kind = "document"
    /\ op.name = "Update"
    /\ Sent = 1
    /\ op.set
    /\ op.prior.text_content = "hello"
    /\ state.text_content = "bye"
    /\ state.id = op.prior.id

\* C11: corax_document: a Create with a configured id X upserts the
\* document under X and leaves X as the id in state; a Create without a
\* configured id leaves in state the id under which the document was
\* upserted and which the API returned.
C11_CreateIdIsUpsertId ==
    (kind = "document" /\ op.name = "Create" /\ op.set) =>
        /\ op.reqs[1].method = "PUT"
        /\ op.reqs[1].path = <<"collections", state.collection_id, "documents", state.id>>
        /\ op.body.id = state.id
        /\ op.plan.id \notin {IdNull, IdUnknown} => state.id = op.plan.id

C11_Witness ==
    /\ kind = "document"
    /\ op.name = "Create"
    /\ op.set
    /\ op.plan.id = <<"user", 1>>
    /\ state.id = <<"user", 1>>
    /\ op.reqs[1].path[4] = <<"user", 1>>

\* C13: data_retention in the type/hours form: every value that passes
\* validation, and so every value a handler is given, has hours set when
\* type is "timed" and unset when type is "infinite"; every data_retention
\* sent to the API with type "timed" carries hours of at least 1, and
\* every one with type "infinite" carries no hours.
C13_DataRetentionHoursMatchType ==
    (/\ kind = "chat_capability"
     /\ op.name \in {"Create", "Update"}
     /\ op.plan.config.form = "type_hours") =>
        /\ op.plan.config.type \in {"timed", "infinite"}
        /\ op.plan.config.type = "timed" => op.plan.config.hours.present
        /\ op.plan.config.type = "infinite" => ~op.plan.config.hours.present
        /\ (Sent = 1 /\ op.reqs[1].body.config.present) =>
            LET sent == op.reqs[1].body.config.v
            IN  /\ sent.type = "timed" => (sent.hours.present /\ sent.hours.v >= 1)
                /\ sent.type = "infinite" => ~sent.hours.present

C13_Witness ==
    /\ kind = "chat_capability"
    /\ op.name = "Create"
    /\ op.plan.config = [form |-> "type_hours", type |-> "timed", hours |-> Some(24)]
    /\ Sent = 1
    /\ op.reqs[1].body.config = Some([type |-> "timed", hours |-> Some(24)])

\* C14: data_retention in the timed/infinite form: a configuration whose
\* infinite block has enabled = false is rejected, so no Create or Update
\* is ever given one.
C14_InfiniteMustBeEnabled ==
    (/\ kind = "chat_capability_blocks"
     /\ op.name \in {"Create", "Update"}
     /\ op.plan.config.form = "blocks"
     /\ op.plan.config.infinite.present)
    => op.plan.config.infinite.v

\* C15: the Delete of corax_capability_type_default_model issues no
\* request: the resource leaves state and the API keeps every default
\* model deployment as it was, so that a later Read of the capability
\* type still finds the one last set.
C15_DeleteLeavesDefaultInAPI ==
    [][CapabilityTypeDefaultModelDelete =>
        /\ Len(op'.reqs) = 0
        /\ ~op'.diagError
        /\ state' = NoResource
        /\ remote' = remote
        /\ remote'.default[state.capability_type] = remote.default[state.capability_type]]_vars

C15_Witness ==
    /\ kind = "capability_type_default_model"
    /\ op.name = "Delete"
    /\ Sent = 0
    /\ state = NoResource
    /\ op.prior.default_model_deployment_id = "md-2"
    /\ remote.default[op.prior.capability_type] = "md-2"

\* C16: corax_document: every configuration that passes validation, and
\* so every plan given to Create, has exactly one of text_content and
\* json_content set, and every request of Create carries exactly one of
\* the two contents.
C16_ExactlyOneContent ==
    (kind = "document" /\ op.name = "Create") =>
        /\ IsSet(op.plan.text_content) # IsSet(op.plan.json_content)
        /\ Sent = 1 =>
            op.reqs[1].body.text_content.present # op.reqs[1].body.json_content.present

\* C17: provider configuration hands a client to resources only if both
\* the API endpoint and the API key resolve to non-empty values, each
\* resolving to its attribute when that is non-empty and otherwise to
\* CORAX_API_ENDPOINT / CORAX_API_KEY; the client carries the resolved
\* values; otherwise Configure reports an error and configures no client.
C17_ClientOnlyIfResolved ==
    (kind = "provider" /\ op.name = "Configure") =>
        LET Resolved(attribute, env) ==
                IF attribute \notin {"null", ""} THEN attribute ELSE env
            endpoint == Resolved(op.plan.api_endpoint, op.plan.CORAX_API_ENDPOINT)
            key == Resolved(op.plan.api_key, op.plan.CORAX_API_KEY)
        IN  /\ op.body # NoBody =>
                /\ endpoint # "" /\ key # ""
                /\ op.body.BaseURL = endpoint
                /\ op.body.APIKey = key
                /\ ~op.diagError
            /\ (endpoint = "" \/ key = "") => (op.diagError /\ op.body = NoBody)
            /\ op.body = NoBody => op.diagError

C17_Witness ==
    /\ kind = "provider"
    /\ op.name = "Configure"
    /\ op.plan.api_endpoint = "null"
    /\ op.plan.CORAX_API_ENDPOINT = "https://env.corax.ai"
    /\ op.plan.api_key = "key-cfg"
    /\ op.plan.CORAX_API_KEY = "key-env"
    /\ op.body = [exists |-> TRUE, BaseURL |-> "https://env.corax.ai", APIKey |-> "key-cfg"]
    /\ ~op.diagError

\* C18: customParametersToAPI returns a nil map and no error for a null
\* or unknown value (a null string and a null object included), an error
\* and no map for a string that is not valid JSON (the empty string
\* included), and otherwise a non-nil map (empty for "{}") with the keys
\* and values of the input.
C18_CustomParametersToAPI ==
    (kind = "custom_parameters" /\ op.name = "customParametersToAPI") =>
        LET input == op.plan
            absent == input.type \in {"null", "unknown"} \/ input.null
            validJSON == input.text \in {"{}", "{\"key1\":\"value1\",\"key2\":123,\"key3\":true}"}
        IN  /\ absent => (op.body = None /\ ~op.diagError)
            /\ (~absent /\ input.type = "string" /\ ~validJSON) =>
                    (op.body = None /\ op.diagError)
            /\ (~absent /\ input.type = "string" /\ validJSON) =>
                    /\ ~op.diagError
                    /\ op.body.present
                    /\ input.text = "{}" => DOMAIN op.body.v = {}
                    /\ input.text # "{}" =>
                        /\ DOMAIN op.body.v = {"key1", "key2", "key3"}
                        /\ op.body.v["key1"] = [t |-> "string", v |-> "value1"]
                        /\ op.body.v["key2"] = [t |-> "float64", v |-> "123"]
                        /\ op.body.v["key3"] = [t |-> "bool", v |-> "true"]
            /\ (~absent /\ input.type \in {"object", "map"}) =>
                    /\ ~op.diagError
                    /\ op.body.present
                    /\ op.body.v = input.attrs

C18_Witness ==
    /\ kind = "custom_parameters"
    /\ op.name = "customParametersToAPI"
    /\ op.plan.type = "string"
    /\ ~op.plan.null
    /\ op.plan.text = ""
    /\ op.body = None
    /\ op.diagError

\* C19: for corax_embeddings_model with a configured api_key, the api_key
\* in state after Create or Update is the planned one and after Read the
\* one of the prior state, whether the API leaves api_key out of its
\* response or returns a redacted one.
C19_ApiKeyPreserved ==
    (kind = "embeddings_model" /\ op.set /\ ~op.diagError) =>
        /\ (op.name \in {"Create", "Update"} /\ IsSet(op.plan.api_key)) =>
                state.api_key = op.plan.api_key
        /\ (op.name = "Read" /\ IsSet(op.prior.api_key)) =>
                state.api_key = op.prior.api_key

\* C20: for every resource type whose Delete calls the API, a 404 answer
\* is treated as already deleted: Delete reports no error and the
\* resource is gone from state.
C20_DeleteNotFoundSucceeds ==
    (op.name = "Delete" /\ Answered(StatusNotFound)) =>
        /\ ~op.diagError
        /\ state = NoResource
        /\ op.prior # NoResource

C20_Witness ==
    /\ kind = "document"
    /\ op.name = "Delete"
    /\ op.reqs[1].method = "DELETE"
    /\ Answered(StatusNotFound)
    /\ op.prior # NoResource
    /\ state = NoResource
    /\ ~op.diagError

\* C21: for collection, document, embeddings model, model deployment,
\* chat capability and completion capability, an Update whose plan
\* differs from prior state in no updatable attribute sends no request
\* to the API and writes the plan to state unchanged.
C21_NoOpUpdateSendsNothing ==
    LET updatable ==
            CASE kind = "collection" -> {"name", "embeddings_model_id"}
              [] kind = "document" -> {"text_content", "json_content"}
              [] kind = "embeddings_model" -> {"name", "api_key"}
              [] kind = "model_deployment" -> {"name", "description"}
              [] kind \in {"chat_capability", "chat_capability_blocks"} ->
                    {"name", "system_prompt", "model_id", "config"}
              [] kind = "completion_capability" ->
                    {"name", "output_type", "variables", "schema_def"}
              [] OTHER -> {}
    IN  (/\ op.name = "Update"
         /\ updatable # {}
         /\ \A a \in updatable : op.plan[a] = op.prior[a]) =>
            /\ Sent = 0
            /\ ~op.diagError
            /\ op.set
            /\ state = op.plan

C21_Witness ==
    /\ kind = "model_deployment"
    /\ op.name = "Update"
    /\ op.plan.name = op.prior.name
    /\ op.plan.description = op.prior.description
    /\ Sent = 0
    /\ op.set
    /\ state = op.plan

\* C22: when Read of a chat or completion capability (the Read that
\* follows an import included) finds that the API object's type is not
\* the type the resource expects, the resource is removed from state.
C22_TypeMismatchRemovesResource ==
    (/\ kind \in {"chat_capability", "chat_capability_blocks", "completion_capability"}
     /\ op.name = "Read"
     /\ op.body # NoBody
     /\ op.body.type # (IF kind = "completion_capability" THEN "completion" ELSE "chat")) =>
        /\ op.removed
        /\ ~op.set
        /\ state = NoResource

C22_Witness ==
    /\ kind = "chat_capability"
    /\ op.name = "Read"
    /\ op.prior.name = "null"
    /\ op.body # NoBody
    /\ op.body.type = "completion"
    /\ op.removed
    /\ state = NoResource

\* C23: when an Update of corax_model_deployment plans a provider_id
\* different from prior state, the change is ignored: the request carries
\* no provider_id and the provider_id in state after Update is the one
\* the deployment had before.
C23_ProviderIdChangeIgnored ==
    (/\ kind = "model_deployment"
     /\ op.name = "Update"
     /\ op.plan.provider_id # op.prior.provider_id) =>
        /\ \A i \in 1..Sent : "provider_id" \notin DOMAIN op.reqs[i].body
        /\ state.provider_id = op.prior.provider_id

\* C24: when an Update plans null for an optional attribute that prior
\* state had set (model_id of a chat capability, embeddings_model_id of a
\* collection, api_key of an embeddings model), the request sent to the
\* API carries that field, explicitly null, so that it is cleared.
C24_NullClearsField ==
    LET clearable ==
            CASE kind \in {"chat_capability", "chat_capability_blocks"} -> {"model_id"}
              [] kind = "collection" -> {"embeddings_model_id"}
              [] kind = "embeddings_model" -> {"api_key"}
              [] OTHER -> {}
    IN  (op.name = "Update" /\ Sent = 1) =>
            \A a \in clearable :
                (op.plan[a] = "null" /\ IsSet(op.prior[a])) =>
                    /\ op.reqs[1].body[a].present
                    /\ op.reqs[1].body[a].v = "null"

\* C25: the schema_def plan modifier is canonical and idempotent: two JSON
\* strings that encode the same object and differ only in key order or
\* white space are normalized to the same string, normalizing a
\* normalized string changes nothing, and a null, unknown, non-string,
\* empty or invalid-JSON value is left unmodified.
C25_NormalizerCanonicalIdempotent ==
    (kind = "schema_def" /\ op.name = "PlanModifyDynamic") =>
        LET ValidTexts ==
                {<<"{", "type", "properties", "}">>, <<"{", "properties", "type", "}">>,
                 <<"{", " ", "type", " ", "properties", "}">>,
                 <<" ", "{", "properties", "type", "}", " ">>,
                 <<"{", "type", "}">>, <<"{", " ", "type", "}">>,
                 <<"{", "}">>, <<"{", " ", "}">>}
            KeysOf(text) == {text[i] : i \in DOMAIN text} \ {"{", "}", " "}
            isJSON == op.plan.form = "string" /\ op.plan.json \in ValidTexts
        IN  /\ ~isJSON => op.body = op.plan
            /\ isJSON =>
                /\ op.body.form = "string"
                /\ KeysOf(op.body.json) = KeysOf(op.plan.json)
                /\ \A text \in ValidTexts :
                        KeysOf(text) = KeysOf(op.plan.json) =>
                            PlanModifyDynamic(DynamicString(text)) = op.body
                /\ PlanModifyDynamic(op.body) = op.body

C25_Witness ==
    /\ kind = "schema_def"
    /\ op.name = "PlanModifyDynamic"
    /\ op.plan = DynamicString(<<" ", "{", "properties", "type", "}", " ">>)
    /\ op.body = DynamicString(<<"{", "properties", "type", "}">>)

\* C30: corax_completion_capability: whether schema_def is planned as a
\* JSON string or as an HCL map/object, when the API echoes the schema
\* back unchanged the schema_def written to state by Create is the
\* planned schema_def.
C30_SchemaDefRoundTrip ==
    (/\ kind = "completion_capability"
     /\ op.name = "Create"
     /\ op.set
     /\ op.plan.schema_def.form \in {"string", "object"}
     /\ op.reqs[1].body.schema_def.present
     /\ op.body.output.result = op.reqs[1].body.schema_def) =>
        state.schema_def = op.plan.schema_def

\* C26: for every resource type, when the API call of a Create, Read,
\* Update or Delete fails (a transport error, or an answer outside 2xx
\* other than a 404 that Read or Delete handles), Terraform state is left
\* exactly as it was before the operation.
C26_FailedCallLeavesState ==
    LET handled404 ==
            /\ op.resp.StatusCode = StatusNotFound
            /\ op.name \in {"Read", "Delete"}
            /\ kind # "capability_type_default_model"
        failed ==
            \/ op.resp.transportErr
            \/ /\ (op.resp.StatusCode < 200 \/ op.resp.StatusCode >= 300)
               /\ ~handled404
    IN  (op.name \in {"Create", "Read", "Update", "Delete"} /\ Sent = 1 /\ failed) =>
            /\ state = op.prior
            /\ ~op.set
            /\ ~op.removed

C26_Witness ==
    /\ kind = "model_provider"
    /\ op.name = "Update"
    /\ Sent = 1
    /\ op.resp.transportErr
    /\ op.plan.name # op.prior.name
    /\ op.prior # NoResource
    /\ state = op.prior

\* C27: for every resource type, a Read that immediately follows a
\* successful Create or Update, with no change on the API side in
\* between, leaves Terraform state unchanged.
C27_ReadAfterWriteNoDrift ==
    [][(/\ op.name \in {"Create", "Update"}
        /\ op.set
        /\ ~op.diagError
        /\ op'.name = "Read"
        /\ op'.set
        /\ ~op'.diagError) => state' = state]_vars

\* C28: for every resource type, the id in state never changes across
\* Read and Update: after either operation the id in state is the id of
\* prior state, and every request of the operation carries that id as
\* the last element of its path. corax_capability_type_default_model has
\* no id attribute: its capability_type serves as the id.
C28_IdNeverChanges ==
    (op.name \in {"Read", "Update"} /\ op.prior # NoResource) =>
        LET IdOf(res) == IF kind = "capability_type_default_model"
                         THEN res.capability_type ELSE res.id
        IN  /\ state # NoResource => IdOf(state) = IdOf(op.prior)
            /\ \A i \in 1..Sent :
                    op.reqs[i].path[Len(op.reqs[i].path)] = IdOf(op.prior)

C28_Witness ==
    /\ kind = "project"
    /\ op.name = "Update"
    /\ op.set
    /\ Sent = 1
    /\ op.plan.name # op.prior.name
    /\ state.name = op.plan.name
    /\ state.id = op.prior.id
    /\ op.reqs[1].path = <<"projects", op.prior.id>>

\* C29: for every valid data_retention configuration, in either form,
\* converting it to the API payload and converting an API config that
\* echoes that payload back yields the same data_retention; a Create or
\* Update whose response echoes the config it sent writes the planned
\* data_retention to state.
C29_DataRetentionRoundTrip ==
    (/\ kind \in {"chat_capability", "chat_capability_blocks"}
     /\ op.name \in {"Create", "Update"}
     /\ op.plan.config.form # "null") =>
        /\ IF kind = "chat_capability"
           THEN capabilityConfigAPItoModel(capabilityConfigModelToAPI(op.plan.config)) = op.plan.config
           ELSE capabilityConfigAPItoModelBlocks(capabilityConfigModelToAPIBlocks(op.plan.config)) = op.plan.config
        /\ (op.set /\ Sent = 1 /\ op.body.config = op.reqs[1].body.config) =>
                state.config = op.plan.config

====
